---- MODULE Spec2Model ----
(***************************************************************************)
(* A model of the retrieval and authority-ranking core of wyngai-system:   *)
(*   - HierarchicalChunker          (src/src/wyngai/chunk/hierarchical.py) *)
(*   - the authority policies       (data_expansion_pipeline.py, parsers)  *)
(*   - HybridIndexLite + RAGService (hybrid_index_lite.py, rag/service.py) *)
(*   - EnhancedRAGService           (src/rag/enhanced_service.py)          *)
(*   - the DOC, CHUNK and AuthorityRanking schemas                         *)
(*                                  (src/src/wyngai/schemas.py)            *)
(* Each subsystem has its own specification (SpecChunk, SpecAuth,          *)
(* SpecIndex, SpecAsk, SpecDoc, SpecRanking; SpecRebuild, SpecAdd and      *)
(* SpecPersist for HybridIndexLite under concurrent use, under a growing   *)
(* chunk set, and with save_index calls that fail) over one set of         *)
(* variables; the variables of the other subsystems stay at their idle     *)
(* values.                                                                 *)
(*                                                                         *)
(* Numbers: scores and ranks are fixed-point integers, 1000 = 1.0.         *)
(* Text: a Python str is a sequence of one-character strings; offsets are  *)
(* 0-based as in Python and converted at the point of indexing.            *)
(***************************************************************************)
EXTENDS Integers, Sequences, FiniteSets, TLC

VARIABLES
    \* ---- HierarchicalChunker ----
    ccfg,       \* the chunker's configuration (min/max/overlap)
    cdoc,       \* the DOC being chunked
    cpc,        \* position inside chunk_document
    csections,  \* sections extracted from the document
    csec,       \* index (1-based) of the section being processed
    cchunks,    \* chunks produced so far by the current call
    cordinal,   \* chunk_document: chunk_ordinal
    wstart,     \* _split_text_with_overlap: start
    wtexts,     \* _split_text_with_overlap: chunks (window texts)
    witers,     \* iterations of the window loop (history, capped)
    wdropped,   \* history: some window was dropped by the current call
    cruns,      \* results returned by the completed chunk_document calls
    uuidCtr,    \* number of uuid4() values drawn so far
    \* ---- authority policies ----
    ainp,       \* the document facts an authority function is applied to
    aout,       \* the function applied and the score it returned
    \* ---- HybridIndexLite and RAGService ----
    ireq,       \* the search request (query, top_k, min_score)
    bidx,       \* the index that build_index / save_index are called on
    disk,       \* the files under index_path
    svc,        \* "down" until RAGService() has been constructed
    lidx,       \* RAGService.index: a fresh index, then load_index
    sresB,      \* outcome of search on the built index
    sresL,      \* outcome of search on the loaded index
    http,       \* outcome of the request to /ask
    \* ---- EnhancedRAGService ----
    ereq,       \* the QueryRequest (question, max_sources, threshold)
    ewh,        \* the chunks found under warehouse/gold
    esvc,       \* the service object
    eout,       \* outcome of the ask call
    \* ---- DOC and CHUNK objects ----
    ddoc,       \* the DOC object
    dchunk,     \* a CHUNK object
    drejected,  \* history: constructor calls that raised ValidationError
    \* ---- HybridIndexLite under concurrent build_index and search ----
    robj,       \* the attributes of the shared index object
    rbuild,     \* the thread in build_index: position, chunk set
    rsearch,    \* the thread in search: position, what it has read
    \* ---- HybridIndexLite: a chunk set, and the set plus one chunk ----
    xin,        \* the chunk set, the added chunk, the query, the weights
    xbase,      \* scores and results over the index built from the set
    xext,       \* scores and results over the index built from set + chunk
    \* ---- AuthorityRanking objects ----
    kranking,   \* the AuthorityRanking constructed last
    \* ---- HybridIndexLite bundles on disk ----
    pbuilt,     \* history: the indexes built so far, the last one is live
    pdisk,      \* the files under index_path, and which are cut short
    psave,      \* outcome of the last save_index call
    psvc        \* the RAGService: its index, load outcome, answers

chunkVars == <<ccfg, cdoc, cpc, csections, csec, cchunks, cordinal, wstart,
               wtexts, witers, wdropped, cruns, uuidCtr>>

authVars == <<ainp, aout>>

\* no authority function has been applied yet
NoScore == [fn |-> "none", category |-> "none", value |-> 0]

(***************************************************************************)
(* HybridIndexLite: a new index, an empty index_path, idle values          *)
(***************************************************************************)
\* HybridIndexLite.__init__ defaults: 0.4 / 0.3 / 0.3
DefaultWeights == [bm25 |-> 400, tfidf |-> 300, authority |-> 300]

\* self.bm25_index = None, self.tfidf_vectorizer = None,
\* self.tfidf_matrix = None (set = FALSE stands for None)
NoBM25 == [set |-> FALSE, corpus |-> <<>>]
NoVectorizer == [set |-> FALSE, fitted |-> FALSE, idf |-> <<>>]
NoMatrix == [set |-> FALSE, rows |-> <<>>]

\* HybridIndexLite(bm25_weight, tfidf_weight, authority_weight)
NewIndex(w) ==
    [weights |-> w, chunks |-> <<>>, bm25_index |-> NoBM25,
     tfidf_vectorizer |-> NoVectorizer, tfidf_matrix |-> NoMatrix,
     built |-> FALSE,     \* history: build_index was called
     loaded |-> FALSE]    \* history: load_index returned normally

\* index_path does not exist
EmptyDisk ==
    [files |-> {}, chunks |-> <<>>, bm25_index |-> NoBM25,
     tfidf_vectorizer |-> NoVectorizer, tfidf_matrix |-> NoMatrix,
     weights |-> DefaultWeights]

NoSearch == [outcome |-> "none", results |-> <<>>]

IndexIdle ==
    /\ disk = EmptyDisk
    /\ svc = "down"
    /\ lidx = NewIndex(DefaultWeights)
    /\ sresB = NoSearch
    /\ sresL = NoSearch
    /\ http = "none"

IndexUnused ==
    /\ ireq = [query |-> <<>>, top_k |-> 0, min_score |-> 0]
    /\ bidx = NewIndex(DefaultWeights)
    /\ IndexIdle

indexVars == <<ireq, bidx, disk, svc, lidx, sresB, sresL, http>>

(***************************************************************************)
(* EnhancedRAGService: a new service, idle values                          *)
(***************************************************************************)
\* EnhancedRAGService.__init__ (embedder/bm25_index None, empty stores)
NewService ==
    [embedder |-> "None", bm25_index |-> NoBM25, chunk_store |-> <<>>,
     document_store |-> {}, index_built |-> FALSE]

\* no ask call has ended yet
NoOutcome ==
    [kind |-> "none", raised |-> FALSE, error |-> "none", steps |-> <<>>,
     retrieved |-> <<>>, ranked |-> <<>>, answer |-> "",
     confidence |-> 0, citations |-> <<>>,
     requires_professional_review |-> FALSE]

AskUnused ==
    /\ ereq = [question |-> <<>>, max_sources |-> 0,
               authority_threshold |-> 0]
    /\ ewh = <<>>
    /\ esvc = NewService
    /\ eout = NoOutcome

askVars == <<ereq, ewh, esvc, eout>>

(***************************************************************************)
(* DOC and CHUNK objects (schemas.py): idle values                         *)
(***************************************************************************)
\* a str value of an identifier field: the hex digest of a string, cut to
\* chars characters, or a literal the caller wrote
NoString == [kind |-> "literal", of |-> "", chars |-> 0]

\* no DOC / no CHUNK has been constructed yet
NoDoc ==
    [built |-> FALSE, url |-> "", text |-> "", source_id |-> NoString,
     checksum_sha256 |-> NoString, retrieval_priority |-> 0,
     doc_type |-> "reg", jurisdiction |-> "state", refined |-> FALSE]
NoChunk == [built |-> FALSE, authority_rank |-> 0, origin |-> "none"]

DocUnused ==
    /\ ddoc = NoDoc
    /\ dchunk = NoChunk
    /\ drejected = {}

docVars == <<ddoc, dchunk, drejected>>

(***************************************************************************)
(* HybridIndexLite shared by a building and a searching thread: idle       *)
(* values.  A chunk set is named by a number (1, 2, ...); each attribute   *)
(* of the index object holds the number of the chunk set it was made from. *)
(***************************************************************************)
\* the index object after build_index(chunk set g) has completed
SnapshotOf(g) ==
    [chunks |-> g, bm25_index |-> g,
     tfidf_vectorizer |-> [of |-> g, fitted |-> TRUE], tfidf_matrix |-> g]

\* what a search call has read so far (0: not read yet)
NothingSeen ==
    [bm25_index |-> 0, tfidf_vectorizer |-> 0, tfidf_matrix |-> 0,
     authority |-> 0, chunks |-> 0]

RebuildUnused ==
    /\ robj = SnapshotOf(0)
    /\ rbuild = [pc |-> "idle", gen |-> 0]
    /\ rsearch = [pc |-> "idle", seen |-> NothingSeen]

rebuildVars == <<robj, rbuild, rsearch>>

(***************************************************************************)
(* HybridIndexLite built from a chunk set and from the set plus one chunk: *)
(* idle values                                                             *)
(***************************************************************************)
\* no index has been built and searched yet
NoScored == [outcome |-> "none", scores |-> <<>>, results |-> <<>>]

AddUnused ==
    /\ xin = [base |-> <<>>, extra |-> <<>>, query |-> <<>>,
              weights |-> DefaultWeights]
    /\ xbase = NoScored
    /\ xext = NoScored

addVars == <<xin, xbase, xext>>

(***************************************************************************)
(* AuthorityRanking objects (schemas.py): idle values                      *)
(***************************************************************************)
\* no AuthorityRanking has been constructed yet
NoRanking == [built |-> FALSE, overridden |-> {}, value |-> <<>>]

RankingUnused == kranking = NoRanking

rankingVars == <<kranking>>

(***************************************************************************)
(* HybridIndexLite bundles on disk, written by save_index calls that may   *)
(* fail and read by RAGService at start-up: idle values                    *)
(***************************************************************************)
\* no RAGService has been constructed
NoPersist ==
    [state |-> "down", index |-> NewIndex(DefaultWeights), load |-> "none",
     health |-> "none", search |-> "none", http |-> "none"]

PersistUnused ==
    /\ pbuilt = <<>>
    /\ pdisk = [d |-> EmptyDisk, corrupt |-> {}]
    /\ psave = [outcome |-> "none", failed_at |-> 0]
    /\ psvc = NoPersist

persistVars == <<pbuilt, pdisk, psave, psvc>>

notChunkVars == <<authVars, indexVars, askVars, docVars, rebuildVars, addVars,
                  rankingVars, persistVars>>
notAuthVars == <<chunkVars, indexVars, askVars, docVars, rebuildVars, addVars,
                 rankingVars, persistVars>>
notIndexVars == <<chunkVars, authVars, askVars, docVars, rebuildVars, addVars,
                  rankingVars, persistVars>>
notAskVars == <<chunkVars, authVars, indexVars, docVars, rebuildVars, addVars,
                rankingVars, persistVars>>
notDocVars == <<chunkVars, authVars, indexVars, askVars, rebuildVars, addVars,
                rankingVars, persistVars>>
notRebuildVars == <<chunkVars, authVars, indexVars, askVars, docVars, addVars,
                    rankingVars, persistVars>>
notAddVars == <<chunkVars, authVars, indexVars, askVars, docVars, rebuildVars,
                rankingVars, persistVars>>
notRankingVars == <<chunkVars, authVars, indexVars, askVars, docVars,
                    rebuildVars, addVars, persistVars>>
notPersistVars == <<chunkVars, authVars, indexVars, askVars, docVars,
                    rebuildVars, addVars, rankingVars>>

vars == <<chunkVars, authVars, indexVars, askVars, docVars, rebuildVars,
          addVars, rankingVars, persistVars>>

(***************************************************************************)
(* Generic helpers                                                         *)
(***************************************************************************)
MinOf(S) == CHOOSE x \in S : \A y \in S : x <= y
MaxOf(S) == CHOOSE x \in S : \A y \in S : x >= y
Min2(a, b) == IF a <= b THEN a ELSE b

(***************************************************************************)
(* HierarchicalChunker: texts, configuration                               *)
(***************************************************************************)
MaxTextLen == 5     \* longest document text explored
MaxIter == 5        \* cap on the iterations of one window loop
MaxRuns == 2        \* chunk_document calls on the same document
SentenceLookback == 100   \* range(end - 100, end)

\* The characters of a document: a lower-case letter, an upper-case letter,
\* a sentence end and a line break (the only whitespace).
Chars == {"a", "S", ".", "\n"}
SentenceEnds == {".", "!", "?"}
IsSpace(c) == c = "\n" \/ c = " "
\* texts of three sentences: a section of them is split into more windows
\* than len(text) / max_chunk_size
LongTexts ==
    {<<"a", ".", "a", ".", "a", "a">>,
     <<"a", ".", "a", ".", "a", ".", "a">>}
Texts == UNION {[1..k -> Chars] : k \in 0..MaxTextLen} \cup LongTexts

\* doc_type values: "manual", "reg" and "court_opinion" use a line-based
\* strategy, "law" the generic paragraph strategy.
DocTypes == {"manual", "reg", "court_opinion", "law"}

\* HierarchicalChunker(min_chunk_size, max_chunk_size, overlap_size): the
\* constructor stores whatever it is given.
Configs == {c \in [max : {2, 3}, min : {1, 2}, overlap : {0, 1, 2}] :
                c.overlap < c.max}

\* Python text[lo:hi] for 0 <= lo
Slice(t, lo, hi) == SubSeq(t, lo + 1, Min2(hi, Len(t)))

\* a strip that removes nothing
StripNothing(t) == t

\* str.strip()
Strip(t) ==
    LET keep == {i \in 1..Len(t) : ~IsSpace(t[i])}
    IN  IF keep = {} THEN <<>> ELSE SubSeq(t, MinOf(keep), MaxOf(keep))

\* text.split('\n')
RECURSIVE SplitLines(_)
SplitLines(t) ==
    LET hits == {i \in 1..Len(t) : t[i] = "\n"}
    IN  IF hits = {} THEN <<t>>
        ELSE LET i == MinOf(hits)
             IN  <<SubSeq(t, 1, i - 1)>> \o SplitLines(SubSeq(t, i + 1, Len(t)))

\* text.split('\n\n')
RECURSIVE SplitParagraphs(_)
SplitParagraphs(t) ==
    LET hits == {i \in 1..(Len(t) - 1) : t[i] = "\n" /\ t[i + 1] = "\n"}
    IN  IF hits = {} THEN <<t>>
        ELSE LET i == MinOf(hits)
             IN  <<SubSeq(t, 1, i - 1)>>
                     \o SplitParagraphs(SubSeq(t, i + 2, Len(t)))

\* any(re.match(pattern, line) ...) for a stripped, non-empty line over Chars.
\* manual: only r'^[A-Z\s]+$' can match (the other two need a digit or a
\* colon).  reg: every pattern needs '§', '(' or a leading line break.
\* court_opinion: every pattern needs inner whitespace or a word of the
\* heading list.
IsNewSection(doc_type, line) ==
    /\ doc_type = "manual"
    /\ \A i \in 1..Len(line) : line[i] = "S"

\* The loop of _extract_regulation_sections / _extract_manual_sections:
\* cur is current_section["text"].
RECURSIVE LineSections(_, _, _, _)
LineSections(lines, i, cur, doc_type) ==
    IF i > Len(lines)
    THEN (IF cur # <<>> THEN <<[text |-> cur]>> ELSE <<>>)
    ELSE LET line == Strip(lines[i])
         IN  IF line = <<>>
             THEN LineSections(lines, i + 1, cur, doc_type)
             ELSE IF IsNewSection(doc_type, line) /\ cur # <<>>
                  THEN <<[text |-> cur]>>
                           \o LineSections(lines, i + 1, line, doc_type)
                  ELSE LineSections(lines, i + 1, cur \o <<"\n">> \o line,
                                    doc_type)

\* _extract_generic_sections
RECURSIVE GenericSections(_, _)
GenericSections(paras, i) ==
    IF i > Len(paras) THEN <<>>
    ELSE (IF Strip(paras[i]) # <<>> THEN <<[text |-> Strip(paras[i])]>>
                                    ELSE <<>>)
             \o GenericSections(paras, i + 1)

\* _extract_sections
ExtractSections(text, doc_type) ==
    IF doc_type \in {"reg", "manual", "court_opinion"}
    THEN LineSections(SplitLines(text), 1, <<>>, doc_type)
    ELSE GenericSections(SplitParagraphs(text), 1)

\* The sentence-boundary search of _split_text_with_overlap: the first i in
\* range(end - 100, end) with i > start and text[i] in '.!?' gives i + 1.
PullBack(text, start, end) ==
    LET cand == {i \in (end - SentenceLookback)..(end - 1) :
                    i > start /\ text[i + 1] \in SentenceEnds}
    IN  IF cand = {} THEN end ELSE MinOf(cand) + 1

\* end of the window that starts at start
WindowEnd(text, start, cfg) ==
    LET end0 == Min2(start + cfg.max, Len(text))
    IN  IF end0 < Len(text) THEN PullBack(text, start, end0) ELSE end0

\* start = end - self.overlap_size
NextStart(end, cfg) == end - cfg.overlap

\* if len(chunk_text) >= self.min_chunk_size or start == 0
KeepWindow(chunk_text, start, cfg) == Len(chunk_text) >= cfg.min \/ start = 0

\* chunk_id: UUID = Field(default_factory=uuid4): the n-th value drawn; uuid4
\* does not repeat a value.
Uuid4(n) == n + 1

\* CHUNK(...) of the branch "section fits in one chunk"
ShortChunk(text, start_ordinal, uuid) ==
    [chunk_id |-> uuid, ordinal |-> start_ordinal, char_start |-> 0,
     char_end |-> Len(text), text |-> text]

\* ordinal=start_ordinal + i
WindowOrdinal(start_ordinal, i) == start_ordinal + i

\* CHUNK(...) of the i-th (0-based) window of a split section
WindowChunk(text, chunk_text, i, start_ordinal, cfg, uuid) ==
    [chunk_id |-> uuid, ordinal |-> WindowOrdinal(start_ordinal, i),
     char_start |-> i * (cfg.max - cfg.overlap),
     char_end |-> Min2((i + 1) * (cfg.max - cfg.overlap) + cfg.overlap,
                       Len(text)),
     text |-> chunk_text]

\* a chunk_document that forgets to advance chunk_ordinal
NextOrdinalStuck(chunk_ordinal, n) == chunk_ordinal

\* chunk_ordinal += len(section_chunks)
NextOrdinal(chunk_ordinal, n) == chunk_ordinal + n

(***************************************************************************)
(* HierarchicalChunker: chunk_document as a step machine                   *)
(***************************************************************************)
SectionText == csections[csec].text

ChunkIdle ==
    /\ cpc = "idle"
    /\ csections = <<>>
    /\ csec = 1
    /\ cchunks = <<>>
    /\ cordinal = 0
    /\ wstart = 0
    /\ wtexts = <<>>
    /\ witers = 0
    /\ wdropped = FALSE
    /\ cruns = <<>>
    /\ uuidCtr = 0

ChunkUnused ==
    /\ ccfg = [max |-> 3, min |-> 1, overlap |-> 0]
    /\ cdoc = [text |-> <<>>, doc_type |-> "law"]
    /\ ChunkIdle

AuthUnused ==
    /\ ainp = [source_type |-> "other", jurisdiction |-> "federal",
               code |-> "ZZ", doc_type |-> "reg", policy_type |-> "other",
               text_len |-> 5000, recent |-> FALSE, erisa |-> FALSE]
    /\ aout = NoScore

InitChunk ==
    /\ ccfg \in Configs
    /\ cdoc \in [text : Texts, doc_type : DocTypes]
    /\ ChunkIdle
    /\ AuthUnused
    /\ IndexUnused
    /\ AskUnused
    /\ DocUnused
    /\ RebuildUnused
    /\ AddUnused
    /\ RankingUnused
    /\ PersistUnused

\* chunk_document, up to the section loop
ChunkDocument ==
    /\ UNCHANGED notChunkVars
    /\ cpc = "idle"
    /\ Len(cruns) < MaxRuns
    /\ csections' = ExtractSections(cdoc.text, cdoc.doc_type)
    /\ csec' = 1
    /\ cchunks' = <<>>
    /\ cordinal' = 0
    /\ wdropped' = FALSE
    /\ cpc' = "sections"
    /\ UNCHANGED <<ccfg, cdoc, wstart, wtexts, witers, cruns, uuidCtr>>

\* _chunk_section, branch len(text) <= self.max_chunk_size
ChunkSectionShort ==
    /\ UNCHANGED notChunkVars
    /\ cpc = "sections"
    /\ csec <= Len(csections)
    /\ Len(SectionText) <= ccfg.max
    /\ cchunks' = Append(cchunks,
                         ShortChunk(SectionText, cordinal, Uuid4(uuidCtr)))
    /\ uuidCtr' = uuidCtr + 1
    /\ cordinal' = NextOrdinal(cordinal, 1)
    /\ csec' = csec + 1
    /\ UNCHANGED <<ccfg, cdoc, cpc, csections, wstart, wtexts, witers,
                   wdropped, cruns>>

\* _chunk_section, else branch: the call of _split_text_with_overlap
SplitBegin ==
    /\ UNCHANGED notChunkVars
    /\ cpc = "sections"
    /\ csec <= Len(csections)
    /\ Len(SectionText) > ccfg.max
    /\ cpc' = "split"
    /\ wstart' = 0
    /\ wtexts' = <<>>
    /\ witers' = 0
    /\ UNCHANGED <<ccfg, cdoc, csections, csec, cchunks, cordinal, wdropped,
                   cruns, uuidCtr>>

\* one iteration of "while start < len(text)"
SplitIter ==
    /\ UNCHANGED notChunkVars
    /\ cpc = "split"
    /\ wstart < Len(SectionText)
    /\ witers < MaxIter
    /\ LET end == WindowEnd(SectionText, wstart, ccfg)
           chunk_text == Strip(Slice(SectionText, wstart, end))
           keep == KeepWindow(chunk_text, wstart, ccfg)
       IN  /\ wtexts' = IF keep THEN Append(wtexts, chunk_text) ELSE wtexts
           /\ wdropped' = (wdropped \/ ~keep)
           /\ wstart' = NextStart(end, ccfg)
    /\ witers' = witers + 1
    /\ UNCHANGED <<ccfg, cdoc, cpc, csections, csec, cchunks, cordinal, cruns,
                   uuidCtr>>

\* the loop has ended: _split_text_with_overlap returns and _chunk_section
\* builds one CHUNK per window text
SplitReturn ==
    /\ UNCHANGED notChunkVars
    /\ cpc = "split"
    /\ ~(wstart < Len(SectionText))
    /\ cchunks' = cchunks \o
           [k \in 1..Len(wtexts) |->
               WindowChunk(SectionText, wtexts[k], k - 1, cordinal, ccfg,
                           Uuid4(uuidCtr + k - 1))]
    /\ uuidCtr' = uuidCtr + Len(wtexts)
    /\ cordinal' = NextOrdinal(cordinal, Len(wtexts))
    /\ csec' = csec + 1
    /\ cpc' = "sections"
    /\ wstart' = 0
    /\ wtexts' = <<>>
    /\ witers' = 0
    /\ UNCHANGED <<ccfg, cdoc, csections, wdropped, cruns>>

\* all sections done: the chunks are enriched and returned
ChunkReturn ==
    /\ UNCHANGED notChunkVars
    /\ cpc = "sections"
    /\ csec > Len(csections)
    /\ cruns' = Append(cruns, cchunks)
    /\ cpc' = "idle"
    /\ UNCHANGED <<ccfg, cdoc, csections, csec, cchunks, cordinal, wstart,
                   wtexts, witers, wdropped, uuidCtr>>

NextChunk ==
    \/ ChunkDocument
    \/ ChunkSectionShort
    \/ SplitBegin
    \/ SplitIter
    \/ SplitReturn
    \/ ChunkReturn

SpecChunk == InitChunk /\ [][NextChunk]_vars

(***************************************************************************)
(* HierarchicalChunker: properties                                         *)
(***************************************************************************)
\* chunk_document has returned at least once and no call is in progress
Returned == cpc = "idle" /\ Len(cruns) > 0
LastRun == cruns[Len(cruns)]
ClaimedConfig == 0 < ccfg.overlap /\ ccfg.overlap < ccfg.max

\* Positions (0-based) of the document inside some chunk's
\* [char_start, char_end)
CoveredPositions(chunks) ==
    {p \in 0..(Len(cdoc.text) - 1) :
        \E k \in 1..Len(chunks) :
            chunks[k].char_start <= p /\ p < chunks[k].char_end}

\* C2: for every configuration with 0 < overlap_size < max_chunk_size the
\* window loop of _split_text_with_overlap advances start in every
\* iteration (and so reaches start >= len(text) and terminates).
C2_WindowLoopAdvances ==
    [][(cpc = "split" /\ cpc' = "split" /\ ClaimedConfig)
          => wstart' > wstart]_vars

\* C3: when chunk_document returns for a non-empty text and no window was
\* dropped, every non-whitespace position of the document lies in the
\* [char_start, char_end) range of some returned chunk.
C3_RangesCoverDocument ==
    (Returned /\ Len(cdoc.text) > 0 /\ ~wdropped)
        => \A p \in 0..(Len(cdoc.text) - 1) :
              ~IsSpace(cdoc.text[p + 1]) => p \in CoveredPositions(LastRun)

\* C6: in every list returned by chunk_document, and in the list under
\* construction, ordinal is strictly increasing in production order across
\* all sections, so no ordinal is repeated.
C6_OrdinalsStrictlyIncrease ==
    \A run \in {cruns[r] : r \in 1..Len(cruns)} \cup {cchunks} :
        \A i \in 1..(Len(run) - 1) : run[i].ordinal < run[i + 1].ordinal

\* C6 witness: a returned list of at least three chunks from a document
\* with two or more sections, one of them split into several windows.
C6_Witness ==
    /\ Returned
    /\ Len(csections) >= 2
    /\ \E k \in 1..Len(csections) : Len(csections[k].text) > ccfg.max
    /\ Len(LastRun) >= 3
    /\ LastRun[Len(LastRun)].ordinal = Len(LastRun) - 1

\* C8: two chunk_document calls on the same unchanged document return
\* identical chunk sequences (identifier, ordinal, offsets and text equal
\* position by position).
C8_RechunkIdentical ==
    Len(cruns) >= 2 => cruns[1] = cruns[2]

\* the text is empty or holds only whitespace
BlankText(t) == \A i \in 1..Len(t) : IsSpace(t[i])

\* C17: chunk_document on a document whose text is empty or whitespace-only
\* returns an empty chunk list, for every document kind.
C17_BlankDocumentNoChunks ==
    (Returned /\ BlankText(cdoc.text)) => LastRun = <<>>

\* C17 witness: a whitespace-only court opinion of two or more characters
\* was chunked and the call returned no chunk.
C17_Witness ==
    /\ Returned
    /\ cdoc.doc_type = "court_opinion"
    /\ Len(cdoc.text) >= 2
    /\ BlankText(cdoc.text)
    /\ LastRun = <<>>

\* C18: every returned chunk has len(text) <= max_chunk_size, and
\* len(text) >= min_chunk_size unless it is the final chunk of the document
\* or the whole document is shorter than min_chunk_size.
C18_ChunkSizeBounds ==
    Returned
        => \A k \in 1..Len(LastRun) :
              /\ Len(LastRun[k].text) <= ccfg.max
              /\ \/ Len(LastRun[k].text) >= ccfg.min
                 \/ k = Len(LastRun)
                 \/ Len(cdoc.text) < ccfg.min

\* C24: every chunk returned by chunk_document satisfies
\* 0 <= char_start < char_end, also the later windows of a section whose
\* window ends were pulled back to a sentence end.
C24_OffsetsOrdered ==
    Returned
        => \A k \in 1..Len(LastRun) :
              /\ 0 <= LastRun[k].char_start
              /\ LastRun[k].char_start < LastRun[k].char_end

\* Python s[lo:hi] for any lo, hi >= 0
PySlice(t, lo, hi) ==
    IF lo >= Min2(hi, Len(t)) THEN <<>> ELSE Slice(t, lo, hi)

\* C25: the text of every returned chunk is doc.text[char_start:char_end]
\* up to surrounding whitespace, for the chunks of every section and for
\* windows that follow a shortened window.
C25_OffsetsLocateText ==
    Returned
        => \A k \in 1..Len(LastRun) :
              Strip(LastRun[k].text) =
                 Strip(PySlice(cdoc.text, LastRun[k].char_start,
                               LastRun[k].char_end))

(***************************************************************************)
(* Authority policies (ranks in thousandths: 1000 = 1.0)                   *)
(***************************************************************************)
\* self.config["authority_rankings"]
AuthorityBands ==
    [state_doi          |-> [min |-> 850, max |-> 900],
     payer_policy       |-> [min |-> 750, max |-> 800],
     appeal_precedent   |-> [min |-> 700, max |-> 750],
     federal_regulation |-> [min |-> 900, max |-> 950]]
BandTypes == DOMAIN AuthorityBands

SourceTypes == BandTypes \cup {"other"}
Jurisdictions == {"federal", "state", "payer", "medicare"}
\* state codes, payer codes and appeal source codes, and one unknown code
Codes == {"CA", "MA", "TX", "UHC", "AETNA", "CIGNA", "CMS_APPEALS",
          "JUSTIA", "ZZ"}
AuthDocTypes == {"reg", "court_opinion", "appeal_decision", "payer_policy"}
PolicyTypes == {"medical", "prior_auth", "other"}
TextLengths == {5000, 5001, 10001, 15001, 20001, 25001}

AuthInputs ==
    [source_type : SourceTypes, jurisdiction : Jurisdictions, code : Codes,
     doc_type : AuthDocTypes, policy_type : PolicyTypes,
     text_len : TextLengths,
     recent : BOOLEAN,    \* dated within 365 days / text names this year
     erisa : BOOLEAN]     \* "erisa" in text.lower()

\* state_bonuses of DataExpansionPipeline._calculate_authority_rank
PipelineStateBonus(code) ==
    CASE code = "CA" -> 20 [] code = "NY" -> 20 [] code = "MA" -> 10
      [] code = "WA" -> 10 [] OTHER -> 0

PipelineAdjustments(d) ==
      (IF d.jurisdiction = "federal" THEN 20
       ELSE IF d.jurisdiction = "state" THEN PipelineStateBonus(d.code)
       ELSE 0)
    + (IF d.doc_type = "reg" THEN 10
       ELSE IF d.doc_type = "court_opinion" THEN 10 ELSE 0)
    + (IF d.text_len > 5000 THEN 5 ELSE 0)
    + (IF d.text_len > 20000 THEN 5 ELSE 0)
    + (IF d.recent THEN 10 ELSE 0)

\* DataExpansionPipeline._calculate_authority_rank(doc, source_type)
PipelineAuthorityRank(d, source_type) ==
    IF source_type \notin BandTypes THEN 750
    ELSE Min2(AuthorityBands[source_type].min + PipelineAdjustments(d),
              AuthorityBands[source_type].max)

StateParserBonus(code) ==
    CASE code = "CA" -> 20 [] code = "NY" -> 20 [] code = "MA" -> 10
      [] code = "WA" -> 10 [] code = "TX" -> 10 [] code = "FL" -> 10
      [] OTHER -> 0

\* a _calculate_priority that forgets the cap
StateParserPriorityNoCap(d) ==
      870 + StateParserBonus(d.code)
    + (IF d.text_len > 10000 THEN 10 ELSE 0)
    + (IF d.text_len > 25000 THEN 10 ELSE 0)
    + (IF d.recent THEN 5 ELSE 0)

\* StateDOIParser._calculate_priority(state_code, text)
StateParserPriority(d) ==
    Min2(  870 + StateParserBonus(d.code)
         + (IF d.text_len > 10000 THEN 10 ELSE 0)
         + (IF d.text_len > 25000 THEN 10 ELSE 0)
         + (IF d.recent THEN 5 ELSE 0),
         900)

PayerBonus(code) ==
    CASE code = "UHC" -> 20 [] code = "ANTHEM" -> 15 [] code = "AETNA" -> 15
      [] code = "CIGNA" -> 10 [] code = "HUMANA" -> 10 [] code = "BCBS" -> 20
      [] code = "KAISER" -> 10 [] OTHER -> 0

PolicyTypeBonus(policy_type) ==
    CASE policy_type = "medical" -> 10 [] policy_type = "appeals" -> 10
      [] policy_type = "prior_auth" -> 5 [] policy_type = "pharmacy" -> 5
      [] OTHER -> 0

\* PayerPolicyParser._calculate_priority(payer_code, policy_type, text)
PayerParserPriority(d) ==
    Min2(  780 + PayerBonus(d.code) + PolicyTypeBonus(d.policy_type)
         + (IF d.text_len > 5000 THEN 5 ELSE 0)
         + (IF d.text_len > 15000 THEN 5 ELSE 0)
         + (IF d.recent THEN 5 ELSE 0),
         800)

AppealSourceBonus(code) ==
    CASE code = "COURTLISTENER" -> 20 [] code = "CMS_APPEALS" -> 30
      [] code = "JUSTIA" -> 10 [] code = "IRO_DECISIONS" -> 10 [] OTHER -> 0

\* AppealsParser._calculate_priority(source_code, doc_type, text)
AppealsParserPriority(d) ==
    Min2(  720 + AppealSourceBonus(d.code)
         + (IF d.doc_type = "court_opinion" THEN 10
            ELSE IF d.doc_type = "appeal_decision" THEN 5 ELSE 0)
         + (IF d.text_len > 5000 THEN 5 ELSE 0)
         + (IF d.erisa THEN 10 ELSE 0),
         750)

InitAuth ==
    /\ ainp \in AuthInputs
    /\ aout = NoScore
    /\ ChunkUnused
    /\ IndexUnused
    /\ AskUnused
    /\ DocUnused
    /\ RebuildUnused
    /\ AddUnused
    /\ RankingUnused
    /\ PersistUnused

\* doc.retrieval_priority = self._calculate_authority_rank(doc, source_type)
ApplyPipelineRank ==
    /\ aout = NoScore
    /\ aout' = [fn |-> "pipeline", category |-> ainp.source_type,
                value |-> PipelineAuthorityRank(ainp, ainp.source_type)]
    /\ UNCHANGED <<ainp, notAuthVars>>

\* retrieval_priority=self._calculate_priority(state_code, text_content)
ApplyStateParser ==
    /\ aout = NoScore
    /\ aout' = [fn |-> "state_parser", category |-> "state_doi",
                value |-> StateParserPriority(ainp)]
    /\ UNCHANGED <<ainp, notAuthVars>>

ApplyPayerParser ==
    /\ aout = NoScore
    /\ aout' = [fn |-> "payer_parser", category |-> "payer_policy",
                value |-> PayerParserPriority(ainp)]
    /\ UNCHANGED <<ainp, notAuthVars>>

ApplyAppealsParser ==
    /\ aout = NoScore
    /\ aout' = [fn |-> "appeals_parser", category |-> "appeal_precedent",
                value |-> AppealsParserPriority(ainp)]
    /\ UNCHANGED <<ainp, notAuthVars>>

NextAuth ==
    \/ ApplyPipelineRank
    \/ ApplyStateParser
    \/ ApplyPayerParser
    \/ ApplyAppealsParser

SpecAuth == InitAuth /\ [][NextAuth]_vars

\* C7: every score returned by DataExpansionPipeline._calculate_authority_rank
\* for a source type with a configured band, and every score returned by a
\* parser's _calculate_priority, lies in the band of its category and in
\* [0, 1].
C7_AuthorityInBand ==
    (aout # NoScore /\ aout.category \in BandTypes)
        => /\ AuthorityBands[aout.category].min <= aout.value
           /\ aout.value <= AuthorityBands[aout.category].max
           /\ 0 <= aout.value /\ aout.value <= 1000

\* C7 witness: a state-DOI parser score whose bonuses add up to more than
\* the band allows and which was cut back to the band's maximum.
C7_Witness ==
    /\ aout # NoScore
    /\ aout.fn = "state_parser"
    /\ ainp.code = "CA" /\ ainp.text_len > 25000 /\ ainp.recent
    /\ aout.value = 900

(***************************************************************************)
(* HybridIndexLite: chunks, requests                                       *)
(***************************************************************************)
MaxCorpus == 3      \* most chunks passed to build_index

Range(s) == {s[i] : i \in 1..Len(s)}

\* str.lower() on a word ("X" is the only word with an upper-case letter)
Lower(t) ==
    IF t = "X" THEN "x" ELSE IF t = "Appeal" THEN "appeal" ELSE t
\* text.lower().split(): a text is given as the sequence of its words
LowerSplit(text) == [i \in 1..Len(text) |-> Lower(text[i])]

\* CHUNK objects: c1 and c2 score alike for every query
ChunkPool ==
    {[chunk_id |-> [hex |-> "c1"], text |-> <<"x">>, authority_rank |-> 900],
     [chunk_id |-> [hex |-> "c2"], text |-> <<"X">>, authority_rank |-> 900],
     [chunk_id |-> [hex |-> "c3"], text |-> <<"x", "y">>,
      authority_rank |-> 500],
     [chunk_id |-> [hex |-> "c4"], text |-> <<"y">>, authority_rank |-> 800]}

Corpora ==
    {s \in UNION {[1..k -> ChunkPool] : k \in 0..MaxCorpus} :
        \A i, j \in 1..Len(s) : i # j => s[i] # s[j]}

\* constructor arguments: the defaults, and weights that favour authority
WeightChoices ==
    {DefaultWeights, [bm25 |-> 100, tfidf |-> 100, authority |-> 800]}

\* search(query, top_k, min_score); min_score in millionths (weights and
\* scores are both in thousandths)
Requests ==
    [query : {<<>>, <<"X">>, <<"x", "y">>},
     top_k : {0, 1, 2},
     min_score : {0, 100000, 270000}]

\* chunk.model_dump() written with json.dump(..., default=str)
DumpChunk(c) ==
    [chunk_id |-> c.chunk_id.hex, text |-> c.text,
     authority_rank |-> c.authority_rank]
\* CHUNK(**data)
LoadChunk(d) ==
    [chunk_id |-> [hex |-> d.chunk_id], text |-> d.text,
     authority_rank |-> d.authority_rank]

(***************************************************************************)
(* BM25Okapi (rank_bm25) as used by build_index and _bm25_search           *)
(***************************************************************************)
\* 1000 * ln(n) for n = 1..9
LnK == <<0, 693, 1099, 1386, 1609, 1792, 1946, 2079, 2197, 2303, 2398,
         2485, 2565>>

TermFreq(doc, t) == Cardinality({i \in 1..Len(doc) : doc[i] = t})
DocFreq(corpus, t) ==
    Cardinality({i \in 1..Len(corpus) : t \in Range(corpus[i])})
CorpusTerms(corpus) == UNION {Range(corpus[i]) : i \in 1..Len(corpus)}

RECURSIVE TotalLen(_, _)
TotalLen(corpus, i) ==
    IF i > Len(corpus) THEN 0 ELSE Len(corpus[i]) + TotalLen(corpus, i + 1)

\* BM25Okapi(tokenized_docs) divides by the corpus size and by the number
\* of distinct words: it raises ZeroDivisionError when either is zero
BM25Constructs(corpus) == Len(corpus) > 0 /\ CorpusTerms(corpus) # {}

\* log(N - n + 0.5) - log(n + 0.5) = ln(2(N - n) + 1) - ln(2n + 1)
RawIdf(corpus, t) ==
    LnK[2 * (Len(corpus) - DocFreq(corpus, t)) + 1]
        - LnK[2 * DocFreq(corpus, t) + 1]

RECURSIVE SumIdf(_, _)
SumIdf(corpus, terms) ==
    IF terms = {} THEN 0
    ELSE LET t == CHOOSE u \in terms : TRUE
         IN  RawIdf(corpus, t) + SumIdf(corpus, terms \ {t})

AverageIdf(corpus) ==
    SumIdf(corpus, CorpusTerms(corpus)) \div Cardinality(CorpusTerms(corpus))

\* negative idf values are replaced by epsilon * average_idf (0.25);
\* self.idf.get(q) or 0 for an unknown word
Idf(corpus, t) ==
    IF t \notin CorpusTerms(corpus) THEN 0
    ELSE IF RawIdf(corpus, t) < 0 THEN (250 * AverageIdf(corpus)) \div 1000
    ELSE RawIdf(corpus, t)

\* idf * f * (k1 + 1) / (f + k1 * (1 - b + b * doc_len / avgdl)),
\* k1 = 1.5, b = 0.75
TermScore(corpus, t, i) ==
    LET f   == TermFreq(corpus[i], t)
        rel == (1000 * Len(corpus[i]) * Len(corpus)) \div TotalLen(corpus, 1)
        den == 1000 * f + (1500 * (250 + (750 * rel) \div 1000)) \div 1000
    IN  (Idf(corpus, t) * ((2500 * f * 1000) \div den)) \div 1000

RECURSIVE GetScore(_, _, _, _)
GetScore(corpus, q, k, i) ==
    IF k > Len(q) THEN 0
    ELSE TermScore(corpus, q[k], i) + GetScore(corpus, q, k + 1, i)

\* HybridIndexLite._bm25_search
BM25Search(idx, query) ==
    LET corpus == idx.bm25_index.corpus
        q      == LowerSplit(query)
        scores == [i \in 1..Len(corpus) |-> GetScore(corpus, q, 1, i)]
        max_score == MaxOf(Range(scores))
    IN  IF Len(corpus) > 0 /\ max_score > 0
        THEN [i \in 1..Len(corpus) |-> (scores[i] * 1000) \div max_score]
        ELSE scores

(***************************************************************************)
(* TfidfVectorizer (sklearn) as configured by build_index:                 *)
(* ngram_range=(1, 2), max_df=0.8, min_df=2                                *)
(***************************************************************************)
\* the words and the pairs of adjacent words of a text
Features(tokens) ==
    {<<tokens[i]>> : i \in 1..Len(tokens)}
        \cup {<<tokens[i], tokens[i + 1]>> : i \in 1..(Len(tokens) - 1)}

TextFeatures(texts, i) == Features(LowerSplit(texts[i]))

FeatureDocFreq(texts, f) ==
    Cardinality({i \in 1..Len(texts) : f \in TextFeatures(texts, i)})

\* features kept after pruning by min_df and max_df
FitVocabulary(texts) ==
    {f \in UNION {TextFeatures(texts, i) : i \in 1..Len(texts)} :
        /\ FeatureDocFreq(texts, f) >= 2
        /\ 10 * FeatureDocFreq(texts, f) <= 8 * Len(texts)}

\* fit_transform raises ValueError for an empty input, when
\* max_df * n_docs < min_df, and when no feature is left after pruning
FitSucceeds(texts) ==
    /\ Len(texts) > 0
    /\ 8 * Len(texts) >= 2 * 10
    /\ FitVocabulary(texts) # {}

\* smoothed idf ln((1 + N) / (1 + df)) + 1, in tenths
TfidfWeight(texts, f) ==
    10 + (LnK[1 + Len(texts)] - LnK[1 + FeatureDocFreq(texts, f)]) \div 100

FitVectorizer(texts) ==
    [set |-> TRUE, fitted |-> TRUE,
     idf |-> [f \in FitVocabulary(texts) |-> TfidfWeight(texts, f)]]

\* one row per text: the kept features it contains
FitMatrix(texts) ==
    [set |-> TRUE,
     rows |-> [i \in 1..Len(texts) |->
                  TextFeatures(texts, i) \cap FitVocabulary(texts)]]

ISqrt(n) == CHOOSE r \in 0..n : r * r <= n /\ (r + 1) * (r + 1) > n

RECURSIVE SumSquares(_, _)
SumSquares(idf, fs) ==
    IF fs = {} THEN 0
    ELSE LET f == CHOOSE g \in fs : TRUE
         IN  idf[f] * idf[f] + SumSquares(idf, fs \ {f})

\* cosine_similarity of two weighted feature sets, in thousandths
Cosine(idf, qf, df) ==
    LET den == ISqrt(SumSquares(idf, qf) * SumSquares(idf, df))
    IN  IF den = 0 THEN 0 ELSE (1000 * SumSquares(idf, qf \cap df)) \div den

\* HybridIndexLite._tfidf_search
TfidfSearch(idx, query) ==
    LET idf == idx.tfidf_vectorizer.idf
        qf  == Features(LowerSplit(query)) \cap DOMAIN idf
    IN  [i \in 1..Len(idx.tfidf_matrix.rows) |->
            Cosine(idf, qf, idx.tfidf_matrix.rows[i])]

(***************************************************************************)
(* HybridIndexLite.search                                                  *)
(***************************************************************************)
\* _get_authority_scores
AuthorityScores(idx) ==
    [i \in 1..Len(idx.chunks) |-> idx.chunks[i].authority_rank]

\* _combine_scores (millionths)
CombineScores(idx, query) ==
    LET bm25_scores      == BM25Search(idx, query)
        tfidf_scores     == TfidfSearch(idx, query)
        authority_scores == AuthorityScores(idx)
    IN  [i \in 1..Len(idx.chunks) |->
              idx.weights.bm25 * bm25_scores[i]
            + idx.weights.tfidf * tfidf_scores[i]
            + idx.weights.authority * authority_scores[i]]

\* a filter that drops a score equal to min_score
PassesMinScoreStrict(score, min_score) == score > min_score

\* if score >= min_score
PassesMinScore(score, min_score) == score >= min_score

\* for i, score in enumerate(combined_scores): ... results.append(...)
RECURSIVE FilterResults(_, _, _, _)
FilterResults(idx, scores, min_score, i) ==
    IF i > Len(scores) THEN <<>>
    ELSE (IF PassesMinScore(scores[i], min_score)
          THEN <<[chunk |-> idx.chunks[i], score |-> scores[i]]>>
          ELSE <<>>)
         \o FilterResults(idx, scores, min_score, i + 1)

\* place r behind every entry whose score is not smaller
InsertDesc(sorted, r) ==
    LET n == Cardinality({k \in 1..Len(sorted) : sorted[k].score >= r.score})
    IN  SubSeq(sorted, 1, n) \o <<r>> \o SubSeq(sorted, n + 1, Len(sorted))

\* results.sort(key=lambda x: x[1], reverse=True): a stable sort
RECURSIVE SortDesc(_, _)
SortDesc(results, k) ==
    IF k = 0 THEN <<>>
    ELSE InsertDesc(SortDesc(results, k - 1), results[k])

\* results[:top_k] for top_k >= 0
Take(results, top_k) == SubSeq(results, 1, Min2(top_k, Len(results)))

IndexBuilt(idx) ==
    idx.bm25_index.set /\ idx.tfidf_matrix.set /\ idx.tfidf_vectorizer.set

Search(idx, req) ==
    IF ~IndexBuilt(idx) THEN [outcome |-> "ValueError", results |-> <<>>]
    ELSE LET scores  == CombineScores(idx, req.query)
             results == FilterResults(idx, scores, req.min_score, 1)
         IN  [outcome |-> "ok",
              results |-> Take(SortDesc(results, Len(results)), req.top_k)]

(***************************************************************************)
(* HybridIndexLite: build_index, save_index, load_index                    *)
(***************************************************************************)
Tokenized(chunks) == [i \in 1..Len(chunks) |-> LowerSplit(chunks[i].text)]
TextsOf(chunks) == [i \in 1..Len(chunks) |-> chunks[i].text]

\* build_index(chunks): the attributes are assigned one by one, so an
\* exception leaves the ones assigned before it
IndexAfterBuild(idx, chunks) ==
    LET i1 == [idx EXCEPT !.chunks = chunks, !.built = TRUE]
        i2 == [i1 EXCEPT !.bm25_index =
                   [set |-> TRUE, corpus |-> Tokenized(chunks)]]
        i3 == [i2 EXCEPT !.tfidf_vectorizer =
                   [set |-> TRUE, fitted |-> FALSE, idf |-> <<>>]]
    IN  IF ~BM25Constructs(Tokenized(chunks)) THEN i1
        ELSE IF ~FitSucceeds(TextsOf(chunks)) THEN i3
        ELSE [i2 EXCEPT !.tfidf_vectorizer = FitVectorizer(TextsOf(chunks)),
                        !.tfidf_matrix = FitMatrix(TextsOf(chunks))]

DataFiles ==
    {"chunks.json", "bm25_index.pkl", "tfidf_vectorizer.pkl",
     "tfidf_matrix.pkl"}

\* save_index: four data files, then metadata.json, which needs
\* self.tfidf_matrix.shape and so raises when the matrix is None
DiskAfterSave(d, idx) ==
    [files |-> d.files \cup DataFiles
                 \cup (IF idx.tfidf_matrix.set THEN {"metadata.json"} ELSE {}),
     chunks |-> [i \in 1..Len(idx.chunks) |-> DumpChunk(idx.chunks[i])],
     bm25_index |-> idx.bm25_index,
     tfidf_vectorizer |-> idx.tfidf_vectorizer,
     tfidf_matrix |-> idx.tfidf_matrix,
     weights |-> IF idx.tfidf_matrix.set THEN idx.weights ELSE d.weights]

\* load_index: reads metadata.json, then assigns chunks, bm25_index,
\* tfidf_vectorizer and tfidf_matrix; the weights read with the metadata
\* are not assigned.  A missing file or a None matrix raises.
IndexAfterLoad(idx, d) ==
    LET i1 == [idx EXCEPT !.chunks =
                   [i \in 1..Len(d.chunks) |-> LoadChunk(d.chunks[i])]]
        i2 == [i1 EXCEPT !.bm25_index = d.bm25_index]
        i3 == [i2 EXCEPT !.tfidf_vectorizer = d.tfidf_vectorizer]
        i4 == [i3 EXCEPT !.tfidf_matrix = d.tfidf_matrix]
    IN  IF "metadata.json" \notin d.files THEN idx
        ELSE IF "chunks.json" \notin d.files THEN idx
        ELSE IF "bm25_index.pkl" \notin d.files THEN i1
        ELSE IF "tfidf_vectorizer.pkl" \notin d.files THEN i2
        ELSE IF "tfidf_matrix.pkl" \notin d.files THEN i3
        ELSE IF ~i4.tfidf_matrix.set THEN i4
        ELSE [i4 EXCEPT !.loaded = TRUE]

(***************************************************************************)
(* RAGService and the /ask endpoint                                        *)
(***************************************************************************)
\* QueryRequest: max_results ge=1 le=20, min_score ge=0.0 le=1.0
ValidRequest(req) ==
    /\ 1 <= req.top_k /\ req.top_k <= 20
    /\ 0 <= req.min_score /\ req.min_score <= 1000000

\* RAGService.search: what it raises or which response it returns
ServiceSearch(idx, req) ==
    IF idx.chunks = <<>> THEN "HTTPException_503"
    ELSE LET found == Search(idx, req)
         IN  IF found.outcome # "ok" THEN "ValueError"
             ELSE IF found.results = <<>> THEN "no_results"
             ELSE "answer"

\* ask_question: try: return rag_service.search(request)
\*               except Exception: raise HTTPException(status_code=500)
\* (HTTPException is a subclass of Exception)
AskQuestion(idx, req) ==
    IF ~ValidRequest(req) THEN "422"
    ELSE LET outcome == ServiceSearch(idx, req)
         IN  IF outcome \in {"HTTPException_503", "ValueError"} THEN "500"
             ELSE IF outcome = "no_results" THEN "200_no_results"
             ELSE "200_answer"

InitIndex ==
    /\ ireq \in Requests
    /\ bidx \in {NewIndex(w) : w \in WeightChoices}
    /\ IndexIdle
    /\ ChunkUnused
    /\ AuthUnused
    /\ AskUnused
    /\ DocUnused
    /\ RebuildUnused
    /\ AddUnused
    /\ RankingUnused
    /\ PersistUnused

BuildIndex ==
    /\ ~bidx.built
    /\ \E chunks \in Corpora : bidx' = IndexAfterBuild(bidx, chunks)
    /\ UNCHANGED <<ireq, disk, svc, lidx, sresB, sresL, http>>
    /\ UNCHANGED notIndexVars

SaveIndex ==
    /\ svc = "down"
    /\ disk' = DiskAfterSave(disk, bidx)
    /\ UNCHANGED <<ireq, bidx, svc, lidx, sresB, sresL, http>>
    /\ UNCHANGED notIndexVars

\* RAGService.__init__: a new HybridIndexLite(), and load_index inside
\* try/except when index_path exists
ServiceStart ==
    /\ svc = "down"
    /\ svc' = "up"
    /\ lidx' = IF disk.files = {} THEN NewIndex(DefaultWeights)
               ELSE IndexAfterLoad(NewIndex(DefaultWeights), disk)
    /\ UNCHANGED <<ireq, bidx, disk, sresB, sresL, http>>
    /\ UNCHANGED notIndexVars

SearchBuilt ==
    /\ sresB.outcome = "none"
    /\ sresB' = Search(bidx, ireq)
    /\ UNCHANGED <<ireq, bidx, disk, svc, lidx, sresL, http>>
    /\ UNCHANGED notIndexVars

SearchLoaded ==
    /\ svc = "up"
    /\ sresL.outcome = "none"
    /\ sresL' = Search(lidx, ireq)
    /\ UNCHANGED <<ireq, bidx, disk, svc, lidx, sresB, http>>
    /\ UNCHANGED notIndexVars

AskEndpoint ==
    /\ svc = "up"
    /\ http = "none"
    /\ http' = AskQuestion(lidx, ireq)
    /\ UNCHANGED <<ireq, bidx, disk, svc, lidx, sresB, sresL>>
    /\ UNCHANGED notIndexVars

NextIndex ==
    \/ BuildIndex
    \/ SaveIndex
    \/ ServiceStart
    \/ SearchBuilt
    \/ SearchLoaded
    \/ AskEndpoint

SpecIndex == InitIndex /\ [][NextIndex]_vars

(***************************************************************************)
(* HybridIndexLite and RAGService: properties                              *)
(***************************************************************************)
\* the chunks passing min_score, by position in the chunk list
Passing(sc, min_score) == {i \in 1..Len(sc) : sc[i] >= min_score}

\* how many passing chunks come before chunk i: those with a greater score,
\* and those with the same score and an earlier position
RankOf(sc, pass, i) ==
    Cardinality({j \in pass : sc[j] > sc[i] \/ (sc[j] = sc[i] /\ j < i)})

ReferenceSearch(idx, req) ==
    LET sc   == CombineScores(idx, req.query)
        pass == Passing(sc, req.min_score)
    IN  [r \in 1..Min2(req.top_k, Cardinality(pass)) |->
            LET i == CHOOSE j \in pass : RankOf(sc, pass, j) = r - 1
            IN  [chunk |-> idx.chunks[i], score |-> sc[i]]]

SearchAgrees(idx, req, res) ==
    /\ res = ReferenceSearch(idx, req)
    /\ Len(res) <= req.top_k
    /\ \A k \in 1..Len(res) : res[k].score >= req.min_score
    /\ \A k \in 1..(Len(res) - 1) : res[k].score >= res[k + 1].score

\* C4: after save_index and load_index into a new index, search on the
\* loaded index returns the same ordered (chunk, score) list as search on
\* the index that was saved, and the configured weights are restored.
C4_RoundTripSearch ==
    (lidx.loaded /\ sresB.outcome = "ok" /\ sresL.outcome # "none")
        => (sresL = sresB /\ lidx.weights = bidx.weights)

\* C5: on a built index, search(query, top_k, min_score) returns the chunks
\* whose combined score is >= min_score, ordered by score descending with
\* equal scores in chunk-list order, cut to the first top_k; every returned
\* score is >= min_score, the list is non-increasing, and it has at most
\* top_k entries.
C5_SearchMatchesReference ==
    /\ sresB.outcome = "ok" => SearchAgrees(bidx, ireq, sresB.results)
    /\ sresL.outcome = "ok" => SearchAgrees(lidx, ireq, sresL.results)

\* C5 witness: a search on the built index where three chunks pass
\* min_score, the two returned ones have equal scores, and top_k = 2 cuts
\* off the third.
C5_Witness ==
    /\ sresB.outcome = "ok"
    /\ ireq.top_k = 2
    /\ Len(sresB.results) = 2
    /\ Cardinality(Passing(CombineScores(bidx, ireq.query),
                           ireq.min_score)) = 3
    /\ sresB.results[1].score = sresB.results[2].score
    /\ sresB.results[1].chunk # sresB.results[2].chunk

\* C9: when RAGService has no usable index (index.chunks is empty), a valid
\* request to /ask ends in HTTP 503, not in HTTP 500 and not in the
\* no-results response.
C9_EmptyIndexGives503 ==
    (http \notin {"none", "422"} /\ lidx.chunks = <<>>) => http = "503"

\* C27: for every search on a built, non-empty index the normalized BM25
\* scores of all chunks lie in [0, 1] and the largest of them is exactly
\* 1.0 (1000 thousandths), whatever words the query holds.
C27_TopLexicalScoreIsOne ==
    (sresB.outcome = "ok" /\ bidx.chunks # <<>>)
        => LET scores == BM25Search(bidx, ireq.query)
           IN  /\ \A i \in 1..Len(scores) :
                     0 <= scores[i] /\ scores[i] <= 1000
               /\ MaxOf(Range(scores)) = 1000

(***************************************************************************)
(* EnhancedRAGService: warehouse data, requests                            *)
(***************************************************************************)
\* A chunk_id is a one-element tuple, <<>> when the chunk has no chunk_id
\* key, and <<"chunk_", i>> for the generated f'chunk_{i}'.
\* A text is given as the sequence of its words (text.split()).
ChunkA  == [chunk_id |-> <<"a">>, doc_id |-> "d_fed", text |-> <<"x", "y">>]
ChunkB  == [chunk_id |-> <<"b">>, doc_id |-> "d_pay", text |-> <<"x">>]
ChunkA2 == [chunk_id |-> <<"a">>, doc_id |-> "d_pay", text |-> <<"y">>]
ChunkN  == [chunk_id |-> <<>>, doc_id |-> "d_fed", text |-> <<"appeal">>]
\* "doc_id": null in the JSON file
ChunkD  == [chunk_id |-> <<"d">>, doc_id |-> "None", text |-> <<"x">>]
\* six chunks: three that match no query word, three about appeals
ChunkQ(i) == [chunk_id |-> <<"q", i>>, doc_id |-> "d_pay", text |-> <<"q">>]
ChunkP(i) ==
    [chunk_id |-> <<"p", i>>, doc_id |-> "d_fed", text |-> <<"appeal">>]
SixChunks ==
    <<ChunkQ(1), ChunkQ(2), ChunkQ(3), ChunkP(1), ChunkP(2), ChunkP(3)>>

\* what _load_warehouse_chunks can return: nothing, distinct ids, a repeated
\* id, a chunk without an id, a chunk with a null doc_id, a larger set
Warehouses ==
    {<<>>, <<ChunkA, ChunkB>>, <<ChunkB, ChunkA, ChunkA2>>, <<ChunkN, ChunkB>>,
     <<ChunkA, ChunkD>>, SixChunks}

\* what _load_warehouse_documents returns
WarehouseDocs ==
    {[doc_id |-> "d_fed", category |-> "federal", source |-> "ecfr",
      dated |-> FALSE, days_old |-> 0],
     [doc_id |-> "d_pay", category |-> "payer", source |-> "uhc",
      dated |-> TRUE, days_old |-> 3650]}

\* _create_placeholder_chunks
PlaceholderChunks ==
    <<[chunk_id |-> <<"demo_1">>, doc_id |-> "cfr_45_147",
       text |-> <<"external", "review">>],
      [chunk_id |-> <<"demo_2">>, doc_id |-> "erisa_502",
       text |-> <<"erisa", "x">>],
      [chunk_id |-> <<"demo_3">>, doc_id |-> "nsa_idr", text |-> <<"y">>]>>

\* QueryRequest: question, max_sources: int, authority_threshold: float
\* (no range validation)
AskRequests ==
    [question : {<<"x">>, <<"y", "Appeal">>, <<"zz">>},
     max_sources : {-1, 0, 1, 2},
     authority_threshold : {0, 500, 600, 960}]

Max2(a, b) == IF a >= b THEN a ELSE b

\* s[:k] (a negative k counts from the end)
PySliceTo(s, k) ==
    IF k >= 0 THEN SubSeq(s, 1, Min2(k, Len(s)))
    ELSE SubSeq(s, 1, Max2(Len(s) + k, 0))

(***************************************************************************)
(* EnhancedRAGService: build_index                                         *)
(***************************************************************************)
\* self.document_store.get(doc_id, {}): the set holds at most one document
DocsWithId(document_store, doc_id) ==
    {d \in document_store : d.doc_id = doc_id}

\* base authority by category and source; self.authority_weights
BaseAuthority(doc) ==
    IF doc.category = "federal" \/ doc.source = "ecfr" THEN 950
    ELSE IF doc.source = "cms" THEN 900
    ELSE IF doc.category = "state statute" THEN 850
    ELSE IF doc.category = "state" THEN 750
    ELSE IF doc.category = "court" THEN 700
    ELSE IF doc.category = "payer" THEN 600
    ELSE 500

\* max(0.9, 1.0 - days_old / 3650) when the document has a published_date
RecencyFactor(doc) ==
    IF doc.dated THEN Max2(900, 1000 - (1000 * doc.days_old) \div 3650)
    ELSE 1000

\* EnhancedRAGService._calculate_authority_rank(chunk)
ServiceAuthorityRank(document_store, chunk) ==
    LET found == DocsWithId(document_store, chunk.doc_id)
    IN  IF found = {} THEN 500
        ELSE LET doc == CHOOSE d \in found : TRUE
             IN  Min2(1000, (BaseAuthority(doc) * RecencyFactor(doc))
                               \div 1000)

\* the embedder: one axis per word, the value is the word's count
EmbedWords == {"x", "y", "appeal", "erisa"}
Encode(text) == [w \in EmbedWords |-> TermFreq(LowerSplit(text), w)]

RECURSIVE DotOver(_, _, _)
DotOver(a, b, ws) ==
    IF ws = {} THEN 0
    ELSE LET w == CHOOSE v \in ws : TRUE
         IN  a[w] * b[w] + DotOver(a, b, ws \ {w})
\* np.dot(query_embedding, chunk_data['embedding']), thousandths
Dot(a, b) == 500 * DotOver(a, b, EmbedWords)

\* chunk.get('chunk_id', f'chunk_{i}') with i counted from 0
ChunkKey(chunk, i) ==
    IF chunk.chunk_id = <<>> THEN <<"chunk_", i>> ELSE chunk.chunk_id

\* store[key] = value on a dict: a known key keeps its place
StorePut(store, entry) ==
    IF \E k \in 1..Len(store) : store[k].chunk_id = entry.chunk_id
    THEN [k \in 1..Len(store) |->
             IF store[k].chunk_id = entry.chunk_id THEN entry ELSE store[k]]
    ELSE Append(store, entry)

\* for i, chunk in enumerate(chunks): self.chunk_store[chunk_id] = {...}
RECURSIVE StoreChunks(_, _, _, _)
StoreChunks(store, document_store, chunks, i) ==
    IF i > Len(chunks) THEN store
    ELSE StoreChunks(
             StorePut(store,
                 [chunk_id |-> ChunkKey(chunks[i], i - 1),
                  doc_id |-> chunks[i].doc_id,
                  text |-> chunks[i].text,
                  embedding |-> Encode(chunks[i].text),
                  authority_rank |->
                      ServiceAuthorityRank(document_store, chunks[i])]),
             document_store, chunks, i + 1)

\* if not chunks: chunks = self._create_placeholder_chunks()
EffectiveChunks(chunks) == IF chunks = <<>> THEN PlaceholderChunks ELSE chunks

\* build_index: bm25_index is assigned first; self.embedder.encode raises
\* when the embedder is None; the documents are stored after the chunks
ServiceAfterBuild(service, warehouse_chunks, documents) ==
    LET chunks == EffectiveChunks(warehouse_chunks)
        s1 == [service EXCEPT !.bm25_index =
                  [set |-> TRUE,
                   corpus |-> [i \in 1..Len(chunks) |-> chunks[i].text]]]
    IN  IF service.embedder = "None" THEN s1
        ELSE [s1 EXCEPT
                 !.chunk_store = StoreChunks(service.chunk_store,
                                     service.document_store, chunks, 1),
                 !.document_store = service.document_store \cup documents,
                 !.index_built = TRUE]

(***************************************************************************)
(* EnhancedRAGService: _hybrid_retrieve, _rerank_by_authority,             *)
(* _generate_grounded_response                                             *)
(***************************************************************************)
\* combined_scores[chunk_id] = combined_scores.get(chunk_id, 0) + score
RECURSIVE AddScores(_, _, _)
AddScores(combined, items, i) ==
    IF i > Len(items) THEN combined
    ELSE LET it == items[i]
             known == \E k \in 1..Len(combined) :
                          combined[k].chunk_id = it.chunk_id
         IN  AddScores(
                 IF known
                 THEN [k \in 1..Len(combined) |->
                          IF combined[k].chunk_id = it.chunk_id
                          THEN [combined[k] EXCEPT !.score = @ + it.score]
                          ELSE combined[k]]
                 ELSE Append(combined, it),
                 items, i + 1)

StoreEntry(store, chunk_id) ==
    store[CHOOSE k \in 1..Len(store) : store[k].chunk_id = chunk_id]

\* _hybrid_retrieve(query, max_results); encode_fails: the embedder raises
\* on this query.  Every exception is caught and [] is returned.
\* Scores: bm25 * 0.4 + semantic * 0.6, kept as 4 * bm25 + 6 * semantic.
HybridRetrieve(service, query, max_results, encode_fails) ==
    LET corpus == service.bm25_index.corpus
        store  == service.chunk_store
        bm25_results ==
            SortDesc([i \in 1..Len(corpus) |->
                         [chunk_idx |-> i - 1,
                          score |-> GetScore(corpus, query, 1, i)]],
                     Len(corpus))
        top_bm25 == PySliceTo(bm25_results, max_results)
        \* list(self.chunk_store.keys())[chunk_idx]
        index_error == \E k \in 1..Len(top_bm25) :
                           top_bm25[k].chunk_idx >= Len(store)
        semantic_scores ==
            SortDesc([k \in 1..Len(store) |->
                         [chunk_id |-> store[k].chunk_id,
                          score |-> Dot(Encode(query), store[k].embedding)]],
                     Len(store))
        top_semantic == PySliceTo(semantic_scores, max_results)
        lexical_part ==
            [k \in 1..Len(top_bm25) |->
                [chunk_id |-> store[top_bm25[k].chunk_idx + 1].chunk_id,
                 score |-> 4 * top_bm25[k].score]]
        semantic_part ==
            [k \in 1..Len(top_semantic) |->
                [chunk_id |-> top_semantic[k].chunk_id,
                 score |-> 6 * top_semantic[k].score]]
        combined_scores ==
            AddScores(AddScores(<<>>, lexical_part, 1), semantic_part, 1)
        ranked_chunks ==
            PySliceTo(SortDesc(combined_scores, Len(combined_scores)),
                      max_results)
    IN  IF encode_fails \/ index_error
        THEN [raised |-> TRUE, results |-> <<>>]
        ELSE [raised |-> FALSE,
              results |->
                  [k \in 1..Len(ranked_chunks) |->
                      [chunk_id |-> ranked_chunks[k].chunk_id,
                       doc_id |->
                           StoreEntry(store, ranked_chunks[k].chunk_id).doc_id,
                       authority_rank |->
                           StoreEntry(store,
                               ranked_chunks[k].chunk_id).authority_rank,
                       retrieval_score |-> ranked_chunks[k].score]]]

\* chunk['final_score'] = authority_rank * 0.4 + retrieval_score * 0.6
FinalScore(chunk) == 40 * chunk.authority_rank + 6 * chunk.retrieval_score

\* [c for c in chunks if c.get('authority_rank', 0) >= threshold]
RECURSIVE FilterByAuthority(_, _, _)
FilterByAuthority(chunks, threshold, i) ==
    IF i > Len(chunks) THEN <<>>
    ELSE (IF chunks[i].authority_rank >= threshold
          THEN <<chunks[i]>> ELSE <<>>)
         \o FilterByAuthority(chunks, threshold, i + 1)

InsertByFinalScore(sorted, c) ==
    LET n == Cardinality({k \in 1..Len(sorted) :
                             FinalScore(sorted[k]) >= FinalScore(c)})
    IN  SubSeq(sorted, 1, n) \o <<c>> \o SubSeq(sorted, n + 1, Len(sorted))

\* ranked_chunks.sort(key=lambda x: x['final_score'], reverse=True)
RECURSIVE SortByFinalScore(_, _)
SortByFinalScore(chunks, k) ==
    IF k = 0 THEN <<>>
    ELSE InsertByFinalScore(SortByFinalScore(chunks, k - 1), chunks[k])

\* a rerank that sorts and does not filter by the threshold
RerankNoFilter(chunks, threshold) == SortByFinalScore(chunks, Len(chunks))

\* _rerank_by_authority(chunks, threshold)
RerankByAuthority(chunks, threshold) ==
    SortByFinalScore(FilterByAuthority(chunks, threshold, 1),
                     Len(FilterByAuthority(chunks, threshold, 1)))

RECURSIVE SumAuthority(_, _)
SumAuthority(citations, i) ==
    IF i > Len(citations) THEN 0
    ELSE citations[i].authority_rank + SumAuthority(citations, i + 1)

\* a keyword test that never finds a keyword
HasLegalTermNever(question) == FALSE

\* any(term in question.lower() for term in ['appeal', 'deny', ...])
LegalTerms == {"appeal", "deny", "lawsuit", "legal"}
HasLegalTerm(question) == Range(LowerSplit(question)) \cap LegalTerms # {}

\* Citation(source_id=doc_id, ...): source_id is declared str, a None fails
\* validation
CitationRaises(relevant_chunks) ==
    \E k \in 1..Len(relevant_chunks) : relevant_chunks[k].doc_id = "None"

\* _generate_grounded_response(question, relevant_chunks); an exception in
\* the try block is logged and raised again
GroundedResponse(question, relevant_chunks) ==
    IF relevant_chunks = <<>>
    THEN [kind |-> "response", answer |-> "refusal", confidence |-> 0,
          citations |-> <<>>, requires_professional_review |-> TRUE]
    ELSE IF CitationRaises(relevant_chunks)
    THEN [kind |-> "raise", answer |-> "", confidence |-> 0,
          citations |-> <<>>, requires_professional_review |-> FALSE]
    ELSE LET citations ==
                 [k \in 1..Len(relevant_chunks) |->
                     [source_id |-> relevant_chunks[k].doc_id,
                      authority_rank |-> relevant_chunks[k].authority_rank]]
             avg_authority == SumAuthority(citations, 1) \div Len(citations)
         IN  [kind |-> "response", answer |-> "grounded",
              confidence |-> Min2(950, avg_authority + 100),
              citations |-> citations,
              requires_professional_review |->
                  \/ avg_authority < 700
                  \/ Len(citations) < 2
                  \/ HasLegalTerm(question)]

\* the try block of ask: retrieve max_sources * 3, rerank, answer from
\* ranked_chunks[:max_sources]; except Exception as e:
\* raise HTTPException(status_code=500, detail=str(e))
AskOutcome(service, req, encode_fails) ==
    LET found == HybridRetrieve(service, req.question, req.max_sources * 3,
                                encode_fails)
        ranked_chunks == RerankByAuthority(found.results,
                                           req.authority_threshold)
        response == GroundedResponse(req.question,
                        PySliceTo(ranked_chunks, req.max_sources))
    IN  [kind |-> IF response.kind = "raise" THEN "http_500"
                  ELSE response.kind,
         raised |-> found.raised,
         error |-> IF found.raised THEN "retrieve"
                   ELSE IF response.kind = "raise" THEN "respond"
                   ELSE "none",
         steps |-> <<"_hybrid_retrieve", "_rerank_by_authority",
                     "_generate_grounded_response">>,
         retrieved |-> found.results, ranked |-> ranked_chunks,
         answer |-> response.answer,
         confidence |-> response.confidence,
         citations |-> response.citations,
         requires_professional_review |->
             response.requires_professional_review]

(***************************************************************************)
(* EnhancedRAGService: the handlers                                        *)
(***************************************************************************)
InitAsk ==
    /\ ereq \in AskRequests
    /\ ewh \in Warehouses
    /\ esvc = NewService
    /\ eout = NoOutcome
    /\ ChunkUnused
    /\ AuthUnused
    /\ IndexUnused
    /\ DocUnused
    /\ RebuildUnused
    /\ AddUnused
    /\ RankingUnused
    /\ PersistUnused

\* startup_event / initialize: the embedder is loaded, or the dependencies
\* are missing or loading fails and the embedder stays None
InitializeService ==
    /\ esvc.embedder = "None"
    /\ \E loaded \in BOOLEAN :
           esvc' = IF loaded THEN [esvc EXCEPT !.embedder = "loaded"]
                   ELSE esvc
    /\ UNCHANGED <<ereq, ewh, eout>>
    /\ UNCHANGED notAskVars

\* POST /rebuild-index: build_index(rebuild=True)
RebuildIndex ==
    /\ esvc' = ServiceAfterBuild(esvc, ewh, WarehouseDocs)
    /\ UNCHANGED <<ereq, ewh, eout>>
    /\ UNCHANGED notAskVars

\* POST /ask: ask(request).  build_index runs first when the index is not
\* built, outside the try block, so its exception leaves the handler as it
\* is; everything else that raises becomes HTTPException(500).
Ask ==
    /\ eout.kind = "none"
    /\ \E encode_fails \in BOOLEAN :
          LET service == IF esvc.index_built THEN esvc
                         ELSE ServiceAfterBuild(esvc, ewh, WarehouseDocs)
          IN  /\ esvc' = service
              /\ eout' = IF ~service.index_built
                         THEN [NoOutcome EXCEPT !.kind = "unhandled_error",
                                               !.error = "build"]
                         ELSE AskOutcome(service, ereq, encode_fails)
    /\ UNCHANGED <<ereq, ewh>>
    /\ UNCHANGED notAskVars

NextAsk ==
    \/ InitializeService
    \/ RebuildIndex
    \/ Ask

SpecAsk == InitAsk /\ [][NextAsk]_vars

(***************************************************************************)
(* EnhancedRAGService: properties                                          *)
(***************************************************************************)
NoneAboveThreshold ==
    \A k \in 1..Len(eout.retrieved) :
        eout.retrieved[k].authority_rank < ereq.authority_threshold

\* C1: every response of ask with zero citations has
\* requires_professional_review = true, and when no retrieved chunk has
\* authority_rank >= authority_threshold the response is the fixed refusal
\* with citations = [] and confidence = 0.0.
C1_RefusalWithoutAuthority ==
    eout.kind = "response"
        => /\ eout.citations = <<>> => eout.requires_professional_review
           /\ NoneAboveThreshold
                  => /\ eout.answer = "refusal"
                     /\ eout.citations = <<>>
                     /\ eout.confidence = 0

\* C1 witness: retrieval returned chunks, all of them below the threshold,
\* and ask answered with the refusal.
C1_Witness ==
    /\ eout.kind = "response"
    /\ eout.retrieved # <<>>
    /\ NoneAboveThreshold
    /\ ereq.max_sources > 0
    /\ eout.answer = "refusal"
    /\ eout.requires_professional_review

\* C10: when the retrieval step of ask raises, the request ends in a
\* service-unavailable error; it does not end in the refusal response or
\* in a normal answer.
C10_RetrievalErrorSurfaces ==
    (eout.kind # "none" /\ eout.raised) => eout.kind = "service_unavailable"

\* C11: every ask request in which something raised (index build,
\* retrieval, citation building) ends with a response whose answer is the
\* professional-referral message; none ends as an HTTP error.
C11_FailureGivesReferral ==
    (eout.kind # "none" /\ eout.error # "none")
        => (eout.kind = "response" /\ eout.answer = "refusal")

\* C12: ask on a service whose warehouse holds no chunks returns the fixed
\* refusal with confidence 0.0, no citations and
\* requires_professional_review = true.
C12_EmptyWarehouseRefuses ==
    (eout.kind = "response" /\ ewh = <<>>)
        => /\ eout.answer = "refusal"
           /\ eout.confidence = 0
           /\ eout.citations = <<>>
           /\ eout.requires_professional_review

\* the retrieved candidates whose authority_rank reaches the threshold
Admitted == {i \in 1..Len(eout.retrieved) :
                eout.retrieved[i].authority_rank >= ereq.authority_threshold}

\* position of candidate i among the admitted ones, by final_score
\* descending, earlier candidates first among equals
PlaceOf(i) ==
    1 + Cardinality({j \in Admitted :
            \/ FinalScore(eout.retrieved[j]) > FinalScore(eout.retrieved[i])
            \/ /\ FinalScore(eout.retrieved[j])
                      = FinalScore(eout.retrieved[i])
               /\ j < i})

\* C15: the citations of a non-refusal response are the first max_sources
\* entries of the reference list (the retrieved candidates, at most
\* 3 * max_sources, with authority_rank >= authority_threshold, by
\* final_score descending); each has authority_rank >= authority_threshold
\* and there are at most max_sources of them.
C15_CitationsMatchReference ==
    (eout.kind = "response" /\ eout.answer = "grounded")
        => /\ Len(eout.retrieved) <= 3 * ereq.max_sources
           /\ Len(eout.citations) <= ereq.max_sources
           /\ Len(eout.citations)
                  = Cardinality({i \in Admitted :
                                    PlaceOf(i) <= ereq.max_sources})
           /\ \A i \in Admitted :
                  PlaceOf(i) <= ereq.max_sources
                      => eout.citations[PlaceOf(i)]
                            = [source_id |-> eout.retrieved[i].doc_id,
                               authority_rank |->
                                   eout.retrieved[i].authority_rank]
           /\ \A k \in 1..Len(eout.citations) :
                  eout.citations[k].authority_rank
                      >= ereq.authority_threshold

\* C16: a non-refusal response has requires_professional_review = true
\* whenever the mean authority_rank of its citations is below 0.7, or it
\* has fewer than 2 citations, or the lower-cased question contains one of
\* appeal, deny, lawsuit, legal.
C16_ReviewFlagged ==
    (eout.kind = "response" /\ eout.answer = "grounded")
        => ((\/ SumAuthority(eout.citations, 1) < 700 * Len(eout.citations)
             \/ Len(eout.citations) < 2
             \/ Range(LowerSplit(ereq.question)) \cap LegalTerms # {})
                => eout.requires_professional_review)

\* C16 witness: two citations with mean authority of at least 0.7, a
\* question about an appeal, and the response asks for review.
C16_Witness ==
    /\ eout.kind = "response"
    /\ eout.answer = "grounded"
    /\ Len(eout.citations) >= 2
    /\ SumAuthority(eout.citations, 1) >= 700 * Len(eout.citations)
    /\ "appeal" \in Range(LowerSplit(ereq.question))
    /\ eout.requires_professional_review

\* C23: every ask request runs retrieve, rerank and ground once each, in
\* this order, and ends in one outcome; the outcome is the refusal exactly
\* when no retrieved chunk has authority_rank >= authority_threshold, and
\* otherwise, for max_sources >= 1, it is a grounded response with at
\* least one citation.
C23_StepsAndOutcome ==
    eout.kind # "none"
        => /\ eout.steps = <<"_hybrid_retrieve", "_rerank_by_authority",
                             "_generate_grounded_response">>
           /\ ereq.max_sources >= 1
                 => /\ (eout.kind = "response" /\ eout.answer = "refusal")
                          <=> NoneAboveThreshold
                    /\ ~NoneAboveThreshold
                          => /\ eout.kind = "response"
                             /\ eout.answer = "grounded"
                             /\ Len(eout.citations) >= 1

\* the service a first build_index gives for the warehouse
FirstBuild ==
    ServiceAfterBuild([NewService EXCEPT !.embedder = "loaded"], ewh,
                      WarehouseDocs)

\* C28: after every build_index over the same warehouse, first build or
\* rebuild, chunk_store and document_store hold the entries the first
\* build gives, every chunk with the same authority_rank.
C28_RebuildSameAsFirstBuild ==
    esvc.index_built
        => /\ esvc.chunk_store = FirstBuild.chunk_store
           /\ esvc.document_store = FirstBuild.document_store

\* C30: after every build_index the BM25 corpus and chunk_store have the
\* same number of entries, and position i of the corpus is the text of the
\* chunk stored under the i-th key of chunk_store.
C30_LexicalIndexMatchesStore ==
    esvc.index_built
        => /\ Len(esvc.bm25_index.corpus) = Len(esvc.chunk_store)
           /\ \A i \in 1..Len(esvc.chunk_store) :
                 esvc.bm25_index.corpus[i] = esvc.chunk_store[i].text

(***************************************************************************)
(* DOC and CHUNK objects: construction, assignment, authority refinement   *)
(* (ranks in thousandths: 1000 = 1.0)                                      *)
(***************************************************************************)
\* hashlib.sha256(s.encode()).hexdigest(): 64 hex characters that identify s
Sha256Hex(s) == [kind |-> "sha256", of |-> s, chars |-> 64]
\* value[:n]
Prefix(value, n) == [value EXCEPT !.chars = Min2(n, value.chars)]
\* a string the caller wrote, e.g. "test"
Literal(s, n) == [kind |-> "literal", of |-> s, chars |-> n]

DocUrls == {"https://a", "https://b"}
DocTexts == {"", "t1", "t2"}
\* len(doc.text)
TextLen(text) ==
    CASE text = "" -> 0 [] text = "t1" -> 5001 [] OTHER -> 20001

\* a keyword argument: left out, None, or a value
Omitted == [given |-> "omitted", value |-> NoString]
PyNone == [given |-> "None", value |-> NoString]
Given(v) == [given |-> "value", value |-> v]

\* the source_id / checksum_sha256 arguments of DOC(...)
IdArgs(url) ==
    {Omitted, PyNone, Given(Literal("test", 4)),
     Given(Prefix(Sha256Hex(url), 16))}
ChecksumArgs(text) ==
    {Omitted, PyNone, Given(Literal("test", 4)), Given(Sha256Hex(text))}

\* the retrieval_priority / authority_rank argument; -1 stands for "left
\* out", which gives the default 0.5
PriorityArgs == {-1, -100, 0, 800, 1000, 1500}
DefaultPriority == 500
PriorityValue(arg) == IF arg = -1 THEN DefaultPriority ELSE arg

\* a range test that has no upper bound
InUnitRangeNoUpper(v) == v >= 0

\* Field(..., ge=0.0, le=1.0)
InUnitRange(v) == 0 <= v /\ v <= 1000

\* DOC.generate_fields: source_id from url and checksum from text, only
\* when the argument is missing or None
GenerateFields(arg, generated) ==
    IF arg.given \in {"omitted", "None"} THEN generated ELSE arg.value

\* DOC(**data) when validation passes
NewDoc(url, text, source_id, checksum, priority, doc_type, jurisdiction) ==
    [built |-> TRUE, url |-> url, text |-> text,
     source_id |-> GenerateFields(source_id, Prefix(Sha256Hex(url), 16)),
     checksum_sha256 |-> GenerateFields(checksum, Sha256Hex(text)),
     retrieval_priority |-> PriorityValue(priority),
     doc_type |-> doc_type, jurisdiction |-> jurisdiction,
     refined |-> FALSE]

\* the facts DataExpansionPipeline._calculate_authority_rank reads from a
\* DOC (metadata["state_code"] is "CA", no dates)
PipelineFacts(doc) ==
    [jurisdiction |-> doc.jurisdiction, code |-> "CA",
     doc_type |-> doc.doc_type, text_len |-> TextLen(doc.text),
     recent |-> FALSE]

\* HierarchicalChunker._calculate_authority_rank(doc), AuthorityRanking()
\* defaults; the category of the document does not contain "payer"
ChunkerAuthorityRank(doc) ==
    IF doc.doc_type = "law" THEN 1000
    ELSE IF doc.doc_type = "reg" THEN 950
    ELSE IF doc.jurisdiction = "medicare" /\ doc.doc_type = "manual" THEN 900
    ELSE IF doc.doc_type = "court_opinion" THEN 750
    ELSE doc.retrieval_priority

InitDoc ==
    /\ DocUnused
    /\ ChunkUnused
    /\ AuthUnused
    /\ IndexUnused
    /\ AskUnused
    /\ RebuildUnused
    /\ AddUnused
    /\ RankingUnused
    /\ PersistUnused

\* DOC(url=..., text=..., source_id=..., checksum_sha256=...,
\*     retrieval_priority=...)
ConstructDoc ==
    /\ ~ddoc.built
    /\ \E url \in DocUrls, text \in {"", "t1"}, priority \in PriorityArgs,
          doc_type \in {"reg", "manual"},
          jurisdiction \in {"state", "medicare"} :
         \E source_id \in IdArgs(url), checksum \in ChecksumArgs(text) :
            IF InUnitRange(PriorityValue(priority))
            THEN /\ ddoc' = NewDoc(url, text, source_id, checksum, priority,
                                   doc_type, jurisdiction)
                 /\ UNCHANGED drejected
            ELSE /\ drejected' = drejected \cup {<<"DOC", priority>>}
                 /\ UNCHANGED ddoc
    /\ UNCHANGED dchunk
    /\ UNCHANGED notDocVars

\* doc.text = text: the model does not validate assignments and no field
\* is derived again
SetText ==
    /\ ddoc.built
    /\ \E text \in DocTexts : ddoc' = [ddoc EXCEPT !.text = text]
    /\ UNCHANGED <<dchunk, drejected>>
    /\ UNCHANGED notDocVars

\* doc.retrieval_priority = self._calculate_authority_rank(doc, source_type)
RefinePriority ==
    /\ ddoc.built
    /\ \E source_type \in {"state_doi", "payer_policy", "appeal_precedent"} :
          ddoc' = [ddoc EXCEPT
                      !.retrieval_priority =
                          PipelineAuthorityRank(PipelineFacts(ddoc),
                                                source_type),
                      !.refined = TRUE]
    /\ UNCHANGED <<dchunk, drejected>>
    /\ UNCHANGED notDocVars

\* CHUNK(..., authority_rank=...) called directly
ConstructChunk ==
    /\ ~dchunk.built
    /\ \E rank \in PriorityArgs :
          IF InUnitRange(PriorityValue(rank))
          THEN /\ dchunk' = [built |-> TRUE,
                             authority_rank |-> PriorityValue(rank),
                             origin |-> "caller"]
               /\ UNCHANGED drejected
          ELSE /\ drejected' = drejected \cup {<<"CHUNK", rank>>}
               /\ UNCHANGED dchunk
    /\ UNCHANGED ddoc
    /\ UNCHANGED notDocVars

\* _chunk_section: CHUNK(..., authority_rank=
\*                       self._calculate_authority_rank(doc))
ChunkerConstructChunk ==
    /\ ddoc.built
    /\ ~dchunk.built
    /\ IF InUnitRange(ChunkerAuthorityRank(ddoc))
       THEN /\ dchunk' = [built |-> TRUE,
                          authority_rank |-> ChunkerAuthorityRank(ddoc),
                          origin |-> "chunker"]
            /\ UNCHANGED drejected
       ELSE /\ drejected' = drejected
                               \cup {<<"CHUNK", ChunkerAuthorityRank(ddoc)>>}
            /\ UNCHANGED dchunk
    /\ UNCHANGED ddoc
    /\ UNCHANGED notDocVars

\* the pipeline's chunking step: chunk.authority_rank =
\* doc.retrieval_priority
AssignChunkRank ==
    /\ ddoc.built
    /\ dchunk.built
    /\ dchunk.origin = "chunker"
    /\ dchunk' = [dchunk EXCEPT !.authority_rank = ddoc.retrieval_priority,
                                !.origin = "document"]
    /\ UNCHANGED <<ddoc, drejected>>
    /\ UNCHANGED notDocVars

NextDoc ==
    \/ ConstructDoc
    \/ SetText
    \/ RefinePriority
    \/ ConstructChunk
    \/ ChunkerConstructChunk
    \/ AssignChunkRank

SpecDoc == InitDoc /\ [][NextDoc]_vars

(***************************************************************************)
(* DOC and CHUNK objects: properties                                       *)
(***************************************************************************)
\* C19: in every state of a DOC, source_id is the 16-hex-character digest
\* of url and checksum_sha256 is the 64-hex-character digest of the current
\* text, whether they were generated or passed by the caller, and after the
\* text was changed.
C19_DigestsMatchUrlAndText ==
    ddoc.built
        => /\ ddoc.source_id = Prefix(Sha256Hex(ddoc.url), 16)
           /\ ddoc.checksum_sha256 = Sha256Hex(ddoc.text)

\* C20: DOC.retrieval_priority and CHUNK.authority_rank are within [0, 1]
\* in every state; a constructor call is rejected exactly when its value
\* is outside [0, 1], and neither the pipeline's refinement nor the
\* assignment of a chunk's rank from its document leaves the range.
C20_RanksInUnitRange ==
    /\ ddoc.built
          => (0 <= ddoc.retrieval_priority /\ ddoc.retrieval_priority <= 1000)
    /\ dchunk.built
          => (0 <= dchunk.authority_rank /\ dchunk.authority_rank <= 1000)
    /\ \A r \in drejected : r[2] < 0 \/ r[2] > 1000

\* C20 witness: a DOC with retrieval_priority 1.5 was rejected, a DOC was
\* constructed and refined by the pipeline, and a chunk received its rank
\* from that document.
C20_Witness ==
    /\ <<"DOC", 1500>> \in drejected
    /\ ddoc.built
    /\ ddoc.refined
    /\ dchunk.built
    /\ dchunk.origin = "document"
    /\ dchunk.authority_rank = ddoc.retrieval_priority

\* C26: a chunk built by chunk_document(doc) carries authority_rank =
\* doc.retrieval_priority, the document's score at the time the chunk is
\* created, for every doc_type and jurisdiction.
C26_ChunkRankCopiedFromDoc ==
    [][(~dchunk.built /\ dchunk'.built /\ dchunk'.origin = "chunker")
          => dchunk'.authority_rank = ddoc.retrieval_priority]_vars

(***************************************************************************)
(* HybridIndexLite: build_index and search as interleaved threads.  The    *)
(* class holds no lock; a thread switch can fall between any two           *)
(* attribute accesses.                                                     *)
(***************************************************************************)
MaxRebuilds == 2    \* build_index calls on the index that is already built

InitRebuild ==
    /\ robj = SnapshotOf(1)
    /\ rbuild = [pc |-> "idle", gen |-> 1]
    /\ rsearch = [pc |-> "idle", seen |-> NothingSeen]
    /\ ChunkUnused
    /\ AuthUnused
    /\ IndexUnused
    /\ AskUnused
    /\ DocUnused
    /\ AddUnused
    /\ RankingUnused
    /\ PersistUnused

\* build_index(chunks): self.chunks = chunks
BuildAssignChunks ==
    /\ rbuild.pc = "idle"
    /\ rbuild.gen <= MaxRebuilds
    /\ rbuild' = [pc |-> "chunks_set", gen |-> rbuild.gen + 1]
    /\ robj' = [robj EXCEPT !.chunks = rbuild.gen + 1]
    /\ UNCHANGED rsearch
    /\ UNCHANGED notRebuildVars

\* self.bm25_index = BM25Okapi(tokenized_docs)
BuildAssignBM25 ==
    /\ rbuild.pc = "chunks_set"
    /\ rbuild' = [rbuild EXCEPT !.pc = "bm25_set"]
    /\ robj' = [robj EXCEPT !.bm25_index = rbuild.gen]
    /\ UNCHANGED rsearch
    /\ UNCHANGED notRebuildVars

\* self.tfidf_vectorizer = TfidfVectorizer(...): a new, unfitted object
BuildAssignVectorizer ==
    /\ rbuild.pc = "bm25_set"
    /\ rbuild' = [rbuild EXCEPT !.pc = "vectorizer_set"]
    /\ robj' = [robj EXCEPT !.tfidf_vectorizer =
                                [of |-> rbuild.gen, fitted |-> FALSE]]
    /\ UNCHANGED rsearch
    /\ UNCHANGED notRebuildVars

\* self.tfidf_vectorizer.fit_transform(texts): the vectorizer is fitted
BuildFit ==
    /\ rbuild.pc = "vectorizer_set"
    /\ rbuild' = [rbuild EXCEPT !.pc = "fitted"]
    /\ robj' = [robj EXCEPT !.tfidf_vectorizer.fitted = TRUE]
    /\ UNCHANGED rsearch
    /\ UNCHANGED notRebuildVars

\* self.tfidf_matrix = <result of fit_transform>; build_index returns
BuildAssignMatrix ==
    /\ rbuild.pc = "fitted"
    /\ rbuild' = [rbuild EXCEPT !.pc = "idle"]
    /\ robj' = [robj EXCEPT !.tfidf_matrix = rbuild.gen]
    /\ UNCHANGED rsearch
    /\ UNCHANGED notRebuildVars

\* search(query): the guard passes, every attribute is set
SearchBegin ==
    /\ rsearch.pc = "idle"
    /\ rsearch' = [pc |-> "guarded", seen |-> NothingSeen]
    /\ UNCHANGED <<robj, rbuild>>
    /\ UNCHANGED notRebuildVars

\* _bm25_search: self.bm25_index.get_scores(query_tokens)
SearchBM25 ==
    /\ rsearch.pc = "guarded"
    /\ rsearch' = [pc |-> "bm25_done",
                   seen |-> [rsearch.seen EXCEPT
                                !.bm25_index = robj.bm25_index]]
    /\ UNCHANGED <<robj, rbuild>>
    /\ UNCHANGED notRebuildVars

\* _tfidf_search: self.tfidf_vectorizer.transform([query]); an unfitted
\* vectorizer raises NotFittedError
SearchTransform ==
    /\ rsearch.pc = "bm25_done"
    /\ rsearch' = [pc |-> IF robj.tfidf_vectorizer.fitted
                          THEN "query_vector" ELSE "raised",
                   seen |-> [rsearch.seen EXCEPT
                                !.tfidf_vectorizer =
                                    robj.tfidf_vectorizer.of]]
    /\ UNCHANGED <<robj, rbuild>>
    /\ UNCHANGED notRebuildVars

\* cosine_similarity(query_vector, self.tfidf_matrix)
SearchCosine ==
    /\ rsearch.pc = "query_vector"
    /\ rsearch' = [pc |-> "tfidf_done",
                   seen |-> [rsearch.seen EXCEPT
                                !.tfidf_matrix = robj.tfidf_matrix]]
    /\ UNCHANGED <<robj, rbuild>>
    /\ UNCHANGED notRebuildVars

\* _get_authority_scores: [chunk.authority_rank for chunk in self.chunks]
SearchAuthority ==
    /\ rsearch.pc = "tfidf_done"
    /\ rsearch' = [pc |-> "scored",
                   seen |-> [rsearch.seen EXCEPT !.authority = robj.chunks]]
    /\ UNCHANGED <<robj, rbuild>>
    /\ UNCHANGED notRebuildVars

\* the result loop: results.append((self.chunks[i], score))
SearchCollect ==
    /\ rsearch.pc = "scored"
    /\ rsearch' = [pc |-> "returned",
                   seen |-> [rsearch.seen EXCEPT !.chunks = robj.chunks]]
    /\ UNCHANGED <<robj, rbuild>>
    /\ UNCHANGED notRebuildVars

\* the caller has the result (or the exception) and may search again
SearchEnd ==
    /\ rsearch.pc \in {"returned", "raised"}
    /\ rsearch' = [pc |-> "idle", seen |-> NothingSeen]
    /\ UNCHANGED <<robj, rbuild>>
    /\ UNCHANGED notRebuildVars

NextRebuild ==
    \/ BuildAssignChunks
    \/ BuildAssignBM25
    \/ BuildAssignVectorizer
    \/ BuildFit
    \/ BuildAssignMatrix
    \/ SearchBegin
    \/ SearchBM25
    \/ SearchTransform
    \/ SearchCosine
    \/ SearchAuthority
    \/ SearchCollect
    \/ SearchEnd

SpecRebuild == InitRebuild /\ [][NextRebuild]_vars

(***************************************************************************)
(* HybridIndexLite under concurrency: properties                           *)
(***************************************************************************)
\* the chunk sets a search call has read from
SeenSets ==
    {rsearch.seen[f] : f \in DOMAIN rsearch.seen} \ {0}

\* C13: while build_index runs on an index that already answers queries, a
\* concurrent search never reads a chunk list, a BM25 index and a TF-IDF
\* structure that belong to different chunk sets, never meets a
\* half-built structure, and the attributes of a published snapshot are
\* not overwritten one by one.
C13_SearchSeesOneSnapshot ==
    /\ Cardinality(SeenSets) <= 1
    /\ rsearch.pc # "raised"

(***************************************************************************)
(* HybridIndexLite: the same query over build_index(S) and over            *)
(* build_index(S + [c])                                                    *)
(***************************************************************************)
\* the chunk sets S and the added chunks c: S holds distinct chunks of the
\* pool, c is a chunk of the pool that is not in S
AddInputs ==
    {i \in [base : Corpora, extra : [1..1 -> ChunkPool],
            query : {<<"x">>, <<"y">>, <<"x", "y">>},
            weights : WeightChoices] :
        /\ Len(i.base) >= 2
        /\ \A k \in 1..Len(i.base) : i.base[k] # i.extra[1]}

\* HybridIndexLite(weights); build_index(chunks); then the combined scores
\* and search(query, top_k=len(chunks), min_score=0.0)
BuildAndSearch(weights, chunks, query) ==
    LET idx == IndexAfterBuild(NewIndex(weights), chunks)
    IN  IF ~IndexBuilt(idx)
        THEN [outcome |-> "error", scores |-> <<>>, results |-> <<>>]
        ELSE [outcome |-> "ok",
              scores |-> CombineScores(idx, query),
              results |-> Search(idx, [query |-> query,
                                       top_k |-> Len(chunks),
                                       min_score |-> 0]).results]

InitAdd ==
    /\ xin \in AddInputs
    /\ xbase = NoScored
    /\ xext = NoScored
    /\ ChunkUnused
    /\ AuthUnused
    /\ IndexUnused
    /\ AskUnused
    /\ DocUnused
    /\ RebuildUnused
    /\ RankingUnused
    /\ PersistUnused

\* the index over S
SearchBase ==
    /\ xbase.outcome = "none"
    /\ xbase' = BuildAndSearch(xin.weights, xin.base, xin.query)
    /\ UNCHANGED <<xin, xext>>
    /\ UNCHANGED notAddVars

\* the index over S + [c]
SearchExtended ==
    /\ xext.outcome = "none"
    /\ xext' = BuildAndSearch(xin.weights, xin.base \o xin.extra, xin.query)
    /\ UNCHANGED <<xin, xbase>>
    /\ UNCHANGED notAddVars

NextAdd ==
    \/ SearchBase
    \/ SearchExtended

SpecAdd == InitAdd /\ [][NextAdd]_vars

(***************************************************************************)
(* HybridIndexLite, adding a chunk: properties                             *)
(***************************************************************************)
\* position of chunk c in a result list (0: not in the list)
PositionIn(results, c) ==
    IF \E k \in 1..Len(results) : results[k].chunk = c
    THEN CHOOSE k \in 1..Len(results) : results[k].chunk = c
    ELSE 0

\* C14: for every chunk set S, added chunk c and query, every two chunks of
\* S have the same combined scores and the same relative order in the
\* results over the index of S + [c] as over the index of S.
C14_AddedChunkKeepsScores ==
    (xbase.outcome = "ok" /\ xext.outcome = "ok")
        => \A i, j \in 1..Len(xin.base) :
              /\ xext.scores[i] = xbase.scores[i]
              /\ (PositionIn(xbase.results, xin.base[i])
                      < PositionIn(xbase.results, xin.base[j]))
                 <=> (PositionIn(xext.results, xin.base[i])
                          < PositionIn(xext.results, xin.base[j]))

(***************************************************************************)
(* AuthorityRanking: construction with defaults and with overridden fields *)
(* (values in thousandths: 1000 = 1.0)                                     *)
(***************************************************************************)
\* class AuthorityRanking(BaseModel): the declared fields and defaults
RankingDefaults ==
    [federal_statute |-> 1000, federal_regulation |-> 950,
     cms_manual |-> 900, cms_coverage |-> 900, state_regulation |-> 870,
     state_statute |-> 850, payer_policy |-> 780,
     court_decision_erisa |-> 750, appeal_precedent |-> 720,
     iro_decision |-> 700, state_court_decision |-> 680,
     administrative_ruling |-> 650, secondary_source |-> 400,
     industry_guidance |-> 300, blog |-> 100]

RankingFields == DOMAIN RankingDefaults

\* the keyword arguments of a call: a value for some of the fields
OverridableFields ==
    {"federal_statute", "federal_regulation", "cms_manual", "payer_policy",
     "blog"}
OverrideValues == {300, 950}
RankingKwargs ==
    UNION {[fs -> OverrideValues] : fs \in SUBSET OverridableFields}

\* AuthorityRanking(**kwargs): a given field takes the argument, every
\* other field its declared default
NewRanking(kwargs) ==
    [built |-> TRUE, overridden |-> DOMAIN kwargs,
     value |-> [f \in RankingFields |->
                   IF f \in DOMAIN kwargs THEN kwargs[f]
                   ELSE RankingDefaults[f]]]

InitRanking ==
    /\ RankingUnused
    /\ ChunkUnused
    /\ AuthUnused
    /\ IndexUnused
    /\ AskUnused
    /\ DocUnused
    /\ RebuildUnused
    /\ AddUnused
    /\ PersistUnused

\* ranking = AuthorityRanking(...)
ConstructRanking ==
    /\ \E kwargs \in RankingKwargs : kranking' = NewRanking(kwargs)
    /\ UNCHANGED notRankingVars

NextRanking == ConstructRanking

SpecRanking == InitRanking /\ [][NextRanking]_vars

(***************************************************************************)
(* AuthorityRanking: properties                                            *)
(***************************************************************************)
\* the default values the tests of the schema expect
ExpectedDefaults ==
    [federal_statute |-> 1000, federal_regulation |-> 900,
     cms_manual |-> 800, payer_policy |-> 400, blog |-> 100]

\* C21: an AuthorityRanking holds federal_statute 1.0, federal_regulation
\* 0.9, cms_manual 0.8, payer_policy 0.4 and blog 0.1 in every one of these
\* fields that the call did not override, and every other field that was
\* not overridden holds its declared default.
C21_RankingDefaults ==
    kranking.built
        => \A f \in RankingFields \ kranking.overridden :
              kranking.value[f] =
                 IF f \in DOMAIN ExpectedDefaults THEN ExpectedDefaults[f]
                 ELSE RankingDefaults[f]

(***************************************************************************)
(* HybridIndexLite.save_index with failing writes, load_index at the       *)
(* start of RAGService                                                     *)
(***************************************************************************)
MaxBuilds == 2

\* the files of a bundle in the order save_index writes them
BundleFiles ==
    <<"chunks.json", "bm25_index.pkl", "tfidf_vectorizer.pkl",
      "tfidf_matrix.pkl", "metadata.json">>
NoFailure == Len(BundleFiles) + 1

PoolChunk(hex) == CHOOSE c \in ChunkPool : c.chunk_id.hex = hex

\* chunk sets whose build completes
PersistCorpora ==
    {<<PoolChunk("c1"), PoolChunk("c3"), PoolChunk("c4")>>,
     <<PoolChunk("c4"), PoolChunk("c2"), PoolChunk("c3")>>,
     <<PoolChunk("c3"), PoolChunk("c4"), PoolChunk("c1")>>}

\* the question sent to /ask
PersistRequest == [query |-> <<"x">>, top_k |-> 1, min_score |-> 0]

\* save_index(index_path) whose write of file number k raises (disk full,
\* permission, unpicklable object); k = NoFailure: every write succeeds.
\* Each file is opened with mode 'w' and written in place: the files
\* before k hold the new contents, the files after k are not touched, and
\* file k is untouched (open raised) or cut short (the dump raised).
SaveFailing(pd, idx, k, damage) ==
    LET done(n) == n < k
        d == pd.d
    IN  IF k = NoFailure \/ (k = 5 /\ ~idx.tfidf_matrix.set)
        THEN [d |-> DiskAfterSave(d, idx),
              corrupt |-> pd.corrupt \ (DataFiles \cup
                  (IF idx.tfidf_matrix.set THEN {"metadata.json"} ELSE {}))]
        ELSE [d |->
                [files |-> d.files \cup {BundleFiles[n] : n \in 1..(k - 1)}
                              \cup (IF damage = "cut" THEN {BundleFiles[k]}
                                    ELSE {}),
                 chunks |-> IF done(1)
                            THEN [i \in 1..Len(idx.chunks) |->
                                     DumpChunk(idx.chunks[i])]
                            ELSE d.chunks,
                 bm25_index |-> IF done(2) THEN idx.bm25_index
                                ELSE d.bm25_index,
                 tfidf_vectorizer |-> IF done(3) THEN idx.tfidf_vectorizer
                                      ELSE d.tfidf_vectorizer,
                 tfidf_matrix |-> IF done(4) THEN idx.tfidf_matrix
                                  ELSE d.tfidf_matrix,
                 weights |-> d.weights],
              corrupt |-> (pd.corrupt \ {BundleFiles[n] : n \in 1..(k - 1)})
                             \cup (IF damage = "cut" THEN {BundleFiles[k]}
                                   ELSE {})]

\* what open() and json.load / pickle.load can read: a file that was cut
\* short raises like a missing one
Readable(pd) == [pd.d EXCEPT !.files = pd.d.files \ pd.corrupt]

\* get_health_status: "healthy" if self.index.chunks else "no_index"
HealthStatus(idx) == IF idx.chunks = <<>> THEN "no_index" ELSE "healthy"

InitPersist ==
    /\ PersistUnused
    /\ ChunkUnused
    /\ AuthUnused
    /\ IndexUnused
    /\ AskUnused
    /\ DocUnused
    /\ RebuildUnused
    /\ AddUnused
    /\ RankingUnused

\* index = HybridIndexLite(); index.build_index(chunks)
PersistBuild ==
    /\ Len(pbuilt) < MaxBuilds
    /\ \E chunks \in PersistCorpora :
          pbuilt' = Append(pbuilt,
                           IndexAfterBuild(NewIndex(DefaultWeights), chunks))
    /\ UNCHANGED <<pdisk, psave, psvc>>
    /\ UNCHANGED notPersistVars

\* index.save_index(index_path) on the index built last; nothing catches
\* what a write raises
PersistSave ==
    /\ pbuilt # <<>>
    /\ \E k \in 1..NoFailure, damage \in {"untouched", "cut"} :
          /\ pdisk' = SaveFailing(pdisk, pbuilt[Len(pbuilt)], k, damage)
          /\ psave' = IF k = NoFailure
                      THEN [outcome |-> "ok", failed_at |-> 0]
                      ELSE [outcome |-> "raised", failed_at |-> k]
    /\ UNCHANGED <<pbuilt, psvc>>
    /\ UNCHANGED notPersistVars

\* rag_service = RAGService(): a new HybridIndexLite, load_index inside
\* try/except when index_path exists (save_index creates the directory
\* before its first write)
PersistStart ==
    /\ LET new == NewIndex(DefaultWeights)
           idx == IF psave.outcome = "none" THEN new
                  ELSE IndexAfterLoad(new, Readable(pdisk))
       IN  psvc' = [NoPersist EXCEPT
                       !.state = "up",
                       !.index = idx,
                       !.load = IF psave.outcome = "none" THEN "skipped"
                                ELSE IF idx.loaded THEN "ok" ELSE "raised"]
    /\ UNCHANGED <<pbuilt, pdisk, psave>>
    /\ UNCHANGED notPersistVars

\* GET /health
PersistHealth ==
    /\ psvc.state = "up"
    /\ psvc' = [psvc EXCEPT !.health = HealthStatus(psvc.index)]
    /\ UNCHANGED <<pbuilt, pdisk, psave>>
    /\ UNCHANGED notPersistVars

\* POST /ask: ask_question calls rag_service.search(request)
PersistAsk ==
    /\ psvc.state = "up"
    /\ psvc' = [psvc EXCEPT
                   !.search = ServiceSearch(psvc.index, PersistRequest),
                   !.http = AskQuestion(psvc.index, PersistRequest)]
    /\ UNCHANGED <<pbuilt, pdisk, psave>>
    /\ UNCHANGED notPersistVars

NextPersist ==
    \/ PersistBuild
    \/ PersistSave
    \/ PersistStart
    \/ PersistHealth
    \/ PersistAsk

SpecPersist == InitPersist /\ [][NextPersist]_vars

(***************************************************************************)
(* Bundles on disk: properties                                             *)
(***************************************************************************)
\* the index a new HybridIndexLite holds after loading the complete bundle
\* of the index b
LoadedBundleOf(b) ==
    IndexAfterLoad(NewIndex(DefaultWeights), DiskAfterSave(EmptyDisk, b))

\* C22: a save_index call whose write fails ends raised, and a load_index
\* of the path that returns normally gives the index of one build: the
\* chunk list, the BM25 index, the vectorizer and the matrix of the same
\* build, never files of a failed save next to files of an earlier save.
C22_NoMixedBundle ==
    /\ psave.failed_at # 0 => psave.outcome = "raised"
    /\ psvc.load = "ok"
          => \E i \in 1..Len(pbuilt) : psvc.index = LoadedBundleOf(pbuilt[i])

\* C29: when load_index raised at the start of RAGService, the index is
\* the new empty index it was before the call, the health status is
\* no_index, and RAGService.search raises the 503 "index not available"
\* without calling index.search.
C29_FailedLoadLeavesNoIndex ==
    psvc.load = "raised"
        => /\ psvc.index = NewIndex(DefaultWeights)
           /\ psvc.health \in {"none", "no_index"}
           /\ psvc.search \in {"none", "HTTPException_503"}

====
